---------------------------- MODULE Spec2Model ----------------------------
(***************************************************************************)
(* A model of the fhe_string library: strings of homomorphically encrypted *)
(* ASCII bytes (FheString) and the ServerKey operations on them.           *)
(*                                                                         *)
(* A ciphertext is modelled by the plaintext it decrypts to: the FHE       *)
(* primitives (tfhe::integer) are an external collaborator and are taken   *)
(* to compute the integer / boolean function they are named after.  A      *)
(* Vec is a sequence; the source's 0-based index i is position i+1 here    *)
(* (operator At).  A panic (assert!, panic!, slice out of range) is the    *)
(* value PANIC.                                                            *)
(***************************************************************************)
EXTENDS Integers, Sequences, FiniteSets, TLC

(***************************************************************************)
(* Bounds of the model.                                                    *)
(***************************************************************************)
\* longest clear string given to from_string
MaxLen == 3
\* longest clear pattern given to from_string
MaxPatLen == 2
\* largest padding given to encrypt
MaxPad == 2
\* largest n given to splitn
MaxN == 3
\* longest visible length the life-cycle operations may build
MaxVisible == 4
\* largest padding given to encrypt for replace
MaxPadReplace == 1
\* largest count given to replacen
MaxCount == 2
MaxReusableLen == 5

\* the characters of the inputs: ',' and 'a' (ASCII codes)
Alphabet == {44, 97}

RECURSIVE StringsOfLen(_)
StringsOfLen(k) ==
    IF k = 0 THEN {<<>>}
    ELSE {Append(w, c) : w \in StringsOfLen(k - 1), c \in Alphabet}

StringsUpTo(k) == UNION {StringsOfLen(j) : j \in 0..k}

Strings == StringsUpTo(MaxLen)
Patterns == StringsUpTo(MaxPatLen)

(***************************************************************************)
(* Vec helpers.                                                            *)
(***************************************************************************)
At(v, i) == v[i + 1]

\* v[a..b] of Rust: indices a .. b-1
Slice(v, a, b) == [k \in 1..(b - a) |-> v[a + k]]

Min(a, b) == IF a < b THEN a ELSE b
Max(a, b) == IF a > b THEN a ELSE b

Rev(v) == [k \in 1..Len(v) |-> v[Len(v) + 1 - k]]

Zeros(k) == [j \in 1..k |-> 0]

RECURSIVE Flatten(_)
Flatten(vs) == IF vs = <<>> THEN <<>> ELSE Head(vs) \o Flatten(Tail(vs))

RECURSIVE RepeatVec(_, _)
RepeatVec(v, k) == IF k = 0 THEN <<>> ELSE v \o RepeatVec(v, k - 1)

Bit(b) == IF b THEN 1 ELSE 0

\* str::trim_end_matches('\0')
RECURSIVE TrimEndZeros(_)
TrimEndZeros(v) ==
    IF v /= <<>> /\ v[Len(v)] = 0 THEN TrimEndZeros(SubSeq(v, 1, Len(v) - 1))
    ELSE v

RemoveZeros(v) == SelectSeq(v, LAMBDA c : c /= 0)

\* the element of a one-element set: {f(x) : x \in {e}} computes e once
Only(S) == CHOOSE v \in S : TRUE

PANIC == [panic |-> TRUE]
IsPanic(x) == "panic" \in DOMAIN x

(***************************************************************************)
(* ciphertext.rs: FheAsciiChar and FheString.                              *)
(***************************************************************************)
is_ascii(c) == c <= 127

\* FheAsciiChar::encrypt / trivial_encrypt: the char as u8, ASCII asserted
EncryptChar(c) == c % 256

FheString(chars, fhe_chars, is_encrypted, is_padded, is_reusable) ==
    [chars |-> chars, fhe_chars |-> fhe_chars, is_encrypted |-> is_encrypted,
     is_padded |-> is_padded, is_reusable |-> is_reusable]

\* from_string without assert_positive
from_string_no_positive(string) ==
    IF \E k \in DOMAIN string : ~is_ascii(string[k])
    THEN PANIC
    ELSE FheString(string, <<>>, FALSE, FALSE, TRUE)

\* assert_positive reads the char as u8, assert_is_ascii reads the char
from_string(string) ==
    IF \E k \in DOMAIN string : ~((string[k] % 256) > 0) \/ ~is_ascii(string[k])
    THEN PANIC
    ELSE FheString(string, <<>>, FALSE, FALSE, TRUE)

from_encrypted(ct_vec, is_padded, is_reusable) ==
    FheString(<<>>, ct_vec, TRUE, is_padded, is_reusable)

empty_encrypted == FheString(<<>>, <<>>, TRUE, FALSE, TRUE)

\* FheString::len: the visible length
VLen(self) == IF Len(self.chars) >= Len(self.fhe_chars)
              THEN Len(self.chars) ELSE Len(self.fhe_chars)

encrypt(self, padding) ==
    IF self.is_encrypted \/ \E k \in DOMAIN self.chars : ~is_ascii(self.chars[k])
    THEN PANIC
    ELSE FheString(<<>>,
                   [k \in DOMAIN self.chars |-> EncryptChar(self.chars[k])]
                       \o (IF padding > 0 THEN Zeros(padding) ELSE <<>>),
                   TRUE, padding > 0, TRUE)

trivial_encrypt(self, padding) == encrypt(self, padding)

\* decrypt that keeps the padding bytes
decrypt_keep_zeros(self) ==
    IF ~self.is_encrypted THEN PANIC
    ELSE FheString(self.fhe_chars, <<>>, FALSE, FALSE, TRUE)

decrypt(self) ==
    IF ~self.is_encrypted THEN PANIC
    ELSE LET decrypted == self.fhe_chars
             trimmed == TrimEndZeros(decrypted)
         IN  IF \E k \in DOMAIN decrypted : ~is_ascii(decrypted[k]) THEN PANIC
             ELSE IF self.is_reusable /\ \E k \in DOMAIN trimmed : trimmed[k] = 0
             THEN PANIC
             ELSE FheString(RemoveZeros(trimmed), <<>>, FALSE, FALSE, TRUE)

\* FheString::to_string of a clear value
to_string(self) == self.chars

sub_string(self, index_start, index_end) ==
    IF index_start > index_end + 1 \/ index_end >= VLen(self) THEN PANIC
    ELSE FheString(
        IF self.is_encrypted THEN <<>> ELSE Slice(self.chars, index_start, index_end + 1),
        IF self.is_encrypted THEN Slice(self.fhe_chars, index_start, index_end + 1) ELSE <<>>,
        self.is_encrypted, TRUE, self.is_reusable)

\* reverse that toggles is_reusable of a padded value
reverse_toggle(self) ==
    [self EXCEPT !.chars = Rev(self.chars), !.fhe_chars = Rev(self.fhe_chars),
                 !.is_reusable = IF self.is_padded THEN ~self.is_reusable
                                 ELSE self.is_reusable]

reverse(self) ==
    [self EXCEPT !.chars = Rev(self.chars), !.fhe_chars = Rev(self.fhe_chars),
                 !.is_reusable = ~self.is_padded]

pad(self, padding) ==
    IF ~self.is_encrypted THEN PANIC
    ELSE IF padding > 0
         THEN [self EXCEPT !.fhe_chars = self.fhe_chars \o Zeros(padding),
                           !.is_padded = TRUE]
         ELSE self

repeat(self, n_) ==
    IF ~self.is_encrypted THEN from_string(RepeatVec(to_string(self), n_))
    ELSE IF n_ = 0 THEN empty_encrypted
    ELSE IF n_ = 1 THEN self
    ELSE FheString(<<>>, RepeatVec(self.fhe_chars, n_), TRUE,
                   self.is_padded, ~self.is_padded)

concatenate(fhe_strings) ==
    IF Len(fhe_strings) = 0 THEN PANIC
    ELSE IF \E k \in DOMAIN fhe_strings :
                fhe_strings[k].is_encrypted /= fhe_strings[1].is_encrypted
    THEN PANIC
    ELSE LET m == Len(fhe_strings)
             is_reusable ==
                 IF m > 1
                 THEN (\A k \in 1..(m - 1) : ~fhe_strings[k].is_padded)
                      /\ fhe_strings[m].is_reusable
                 ELSE fhe_strings[1].is_reusable
         IN  FheString(
                 Flatten([k \in 1..m |-> fhe_strings[k].chars]),
                 Flatten([k \in 1..m |-> fhe_strings[k].fhe_chars]),
                 fhe_strings[1].is_encrypted,
                 \E k \in 1..m : fhe_strings[k].is_padded,
                 is_reusable)

(***************************************************************************)
(* server_key/mod.rs: ServerKey utilities.  A boolean RadixCiphertext is   *)
(* modelled by a BOOLEAN, an encrypted length or index by a natural.       *)
(***************************************************************************)
NUMBER_OF_BLOCKS == 4

\* the values one FheAsciiChar holds: NUMBER_OF_BLOCKS blocks of 2 bits
CharModulus == 256

set_zero_where_indices(fhe_str, vec_where, start_index, end_index) ==
    IF ~fhe_str.is_encrypted THEN PANIC
    ELSE IF \E index \in start_index..(end_index - 1) :
                index >= Len(vec_where) /\ index >= VLen(fhe_str)
    THEN PANIC
    ELSE [k \in 1..(end_index - start_index) |->
            LET index == start_index + k - 1
            IN  IF index >= Len(vec_where) THEN At(fhe_str.fhe_chars, index)
                ELSE IF index >= VLen(fhe_str) THEN 0
                ELSE IF At(vec_where, index) THEN 0
                ELSE At(fhe_str.fhe_chars, index)]

set_zero_where(fhe_str, vec_where) ==
    set_zero_where_indices(fhe_str, vec_where, 0, VLen(fhe_str))

RECURSIVE SumSeq(_)
SumSeq(v) == IF v = <<>> THEN 0 ELSE Head(v) + SumSeq(Tail(v))

left_shift(fhe_str, vec_index, is_reusable) ==
    IF VLen(fhe_str) = 0 THEN fhe_str
    ELSE LET len == VLen(fhe_str)
             shifted_vec ==
                 [k \in 1..len |->
                     LET n_ == k - 1
                         max_index == IF len <= n_ + Len(vec_index) THEN len
                                      ELSE n_ + Len(vec_index)
                     IN  SumSeq([j \in 1..(max_index - n_) |->
                                   (At(fhe_str.fhe_chars, n_ + j - 1)
                                       * Bit(At(vec_index, j - 1))) % CharModulus])
                             % CharModulus]
         IN  from_encrypted(shifted_vec, TRUE, is_reusable)

\* ceil(log2(x)) as usize of compute_blocks_for_len
RECURSIVE CeilLog2(_)
CeilLog2(x) == IF x <= 1 THEN 0 ELSE 1 + CeilLog2((x + 1) \div 2)

compute_blocks_for_len(x) == CeilLog2(x) + 1

\* the values a RadixCiphertext of n_blocks blocks holds (2 bits a block)
RECURSIVE RadixModulus(_)
RadixModulus(n_blocks) == IF n_blocks = 0 THEN 1 ELSE 4 * RadixModulus(n_blocks - 1)

\* a len that returns the visible length, the padding counted
ServerKey_len_visible(fhe_str) == VLen(fhe_str)

\* ServerKey::len: the hidden length
ServerKey_len(fhe_str) ==
    IF VLen(fhe_str) = 0 THEN 0
    ELSE LET n_blocks == compute_blocks_for_len(VLen(fhe_str))
         IN  IF ~fhe_str.is_padded THEN VLen(fhe_str) % RadixModulus(n_blocks)
             ELSE IF ~fhe_str.is_encrypted
             THEN Len(to_string(fhe_str)) % RadixModulus(n_blocks)
             ELSE SumSeq([k \in 1..VLen(fhe_str) |->
                            Bit(fhe_str.fhe_chars[k] /= 0)]) % RadixModulus(n_blocks)

\* the bytes an operand gives to the scalar / encrypted comparisons
Bytes(fhe_str) ==
    IF fhe_str.is_encrypted THEN fhe_str.fhe_chars
    ELSE [k \in DOMAIN fhe_str.chars |-> fhe_str.chars[k] % CharModulus]

is_empty_indices(fhe_str, start, end) ==
    IF end - start = 0 THEN TRUE
    ELSE IF ~fhe_str.is_encrypted THEN Slice(fhe_str.chars, start, end) = <<>>
    ELSE \A k \in (start + 1)..end : fhe_str.fhe_chars[k] = 0

is_empty(fhe_str) == is_empty_indices(fhe_str, 0, VLen(fhe_str))

eq_same_size_fhe_chars(fhe_chars_1, fhe_chars_2) ==
    \A k \in DOMAIN fhe_chars_1 : fhe_chars_1[k] = fhe_chars_2[k]

eq_same_size_fhe_chars_chars(fhe_chars, chars) ==
    \A k \in DOMAIN fhe_chars : fhe_chars[k] = chars[k] % CharModulus

RECURSIVE eq_same_size_indices(_, _, _, _, _, _)
eq_same_size_indices(fhe_string_1, start_1, end_1, fhe_string_2, start_2, end_2) ==
    IF end_1 - start_1 = 0 THEN TRUE
    ELSE IF ~fhe_string_1.is_encrypted /\ ~fhe_string_2.is_encrypted
    THEN Slice(to_string(fhe_string_1), start_1, end_1)
             = Slice(to_string(fhe_string_2), start_2, end_2)
    ELSE IF fhe_string_1.is_encrypted /\ ~fhe_string_2.is_encrypted
    THEN eq_same_size_fhe_chars_chars(Slice(fhe_string_1.fhe_chars, start_1, end_1),
                                      Slice(fhe_string_2.chars, start_2, end_2))
    ELSE IF ~fhe_string_1.is_encrypted /\ fhe_string_2.is_encrypted
    THEN eq_same_size_indices(fhe_string_2, start_2, end_2, fhe_string_1, start_1, end_1)
    ELSE eq_same_size_fhe_chars(Slice(fhe_string_1.fhe_chars, start_1, end_1),
                                Slice(fhe_string_2.fhe_chars, start_2, end_2))

eq_same_size(fhe_string_1, fhe_string_2) ==
    eq_same_size_indices(fhe_string_1, 0, VLen(fhe_string_1),
                         fhe_string_2, 0, VLen(fhe_string_2))

\* assert_is_reusable on both operands: the call panics
assert_is_reusable_fails(fhe_string_1, fhe_string_2) ==
    ~fhe_string_1.is_reusable \/ ~fhe_string_2.is_reusable

\* eq that compares the visible bytes only where both operands have some
eq_common_prefix(fhe_string_1, fhe_string_2) ==
    LET len_1 == VLen(fhe_string_1)
        len_2 == VLen(fhe_string_2)
        m == IF len_1 < len_2 THEN len_1 ELSE len_2
    IN  eq_same_size_indices(fhe_string_1, 0, m, fhe_string_2, 0, m)

eq(fhe_string_1, fhe_string_2) ==
    LET len_1 == VLen(fhe_string_1)
        len_2 == VLen(fhe_string_2)
    IN  IF len_1 = len_2 THEN eq_same_size(fhe_string_1, fhe_string_2)
        ELSE IF len_1 > len_2
        THEN IF len_2 = 0 THEN is_empty(fhe_string_1)
             ELSE eq_same_size_indices(fhe_string_1, 0, len_2, fhe_string_2, 0, len_2)
                  /\ is_empty_indices(fhe_string_1, len_2, len_1)
        ELSE IF len_1 = 0 THEN is_empty(fhe_string_2)
             ELSE eq_same_size_indices(fhe_string_1, 0, len_1, fhe_string_2, 0, len_1)
                  /\ is_empty_indices(fhe_string_2, len_1, len_2)

ne(fhe_string_1, fhe_string_2) == ~eq(fhe_string_1, fhe_string_2)

(***************************************************************************)
(* server_key/partial_ordering.rs                                          *)
(***************************************************************************)
\* the order < of Rust's String: lexicographic on the bytes
RECURSIVE StrLt(_, _)
StrLt(x, y) ==
    IF y = <<>> THEN FALSE
    ELSE IF x = <<>> THEN TRUE
    ELSE IF Head(x) /= Head(y) THEN Head(x) < Head(y)
    ELSE StrLt(Tail(x), Tail(y))

lt(fhe_string_a, fhe_string_b) ==
    LET len_a == VLen(fhe_string_a)
        len_b == VLen(fhe_string_b)
    IN  IF len_a = 0 THEN ~is_empty(fhe_string_b)
        ELSE IF len_b = 0 THEN FALSE
        ELSE
        LET end_a == IF len_b < len_a THEN len_b ELSE len_a
            end_b == IF len_b > len_a THEN len_a ELSE len_b
        IN  IF ~fhe_string_a.is_encrypted /\ ~fhe_string_b.is_encrypted
            THEN StrLt(Slice(fhe_string_a.chars, 0, end_a),
                       Slice(fhe_string_b.chars, 0, end_b))
            ELSE
            LET a == Slice(Bytes(fhe_string_a), 0, end_a)
                b == Slice(Bytes(fhe_string_b), 0, end_b)
                is_a_lt_b == [k \in 1..end_a |-> a[k] < b[k]]
                is_a_eq_b == [k \in 1..end_a |-> a[k] = b[k]]
                all_k_before_eq ==
                    [i \in 1..(end_a + 1) |-> \A k \in 1..(i - 1) : is_a_eq_b[k]]
                exists_i == \E i \in 1..end_a : all_k_before_eq[i] /\ is_a_lt_b[i]
                all_equal == all_k_before_eq[end_a + 1]
            IN  IF len_a >= len_b THEN exists_i
                ELSE LET cut_b_positive ==
                             ~is_empty_indices(fhe_string_b, len_a, len_b)
                     IN  exists_i \/ (cut_b_positive /\ all_equal)

\* le that gives lt its operands in the order it received them
le_same_order(fhe_string_a, fhe_string_b) == ~lt(fhe_string_a, fhe_string_b)

le(fhe_string_a, fhe_string_b) == ~lt(fhe_string_b, fhe_string_a)

gt(fhe_string_a, fhe_string_b) == lt(fhe_string_b, fhe_string_a)

ge(fhe_string_a, fhe_string_b) == ~lt(fhe_string_a, fhe_string_b)

(***************************************************************************)
(* server_key/contains.rs.  An Option<RadixCiphertext> is a record: some   *)
(* tells Some from None, value is the boolean of Some.                     *)
(***************************************************************************)
Some(b) == [some |-> TRUE, value |-> b]
None == [some |-> FALSE, value |-> FALSE]

contains_trivially_indices(fhe_str, pat, start_2, end_2, index) ==
    IF end_2 - start_2 = 0 THEN Some(TRUE)
    ELSE IF ~pat.is_padded /\ (end_2 - start_2 + index > VLen(fhe_str)) THEN Some(FALSE)
    ELSE IF VLen(fhe_str) = 0 /\ ~fhe_str.is_padded
    THEN Some(is_empty_indices(pat, start_2, end_2))
    ELSE None

contains_trivially(fhe_str, pat, index) ==
    contains_trivially_indices(fhe_str, pat, 0, VLen(pat), index)

contains_at_index_no_padding(fhe_str, pat, index) ==
    LET trivial == contains_trivially(fhe_str, pat, index)
        len_2 == VLen(pat)
    IN  IF trivial.some THEN trivial.value
        ELSE IF ~fhe_str.is_encrypted /\ ~pat.is_encrypted
        THEN eq_same_size_indices(fhe_str, index, index + len_2, pat, 0, len_2)
        ELSE IF ~fhe_str.is_encrypted /\ pat.is_encrypted
        THEN eq_same_size_fhe_chars_chars(Slice(pat.fhe_chars, 0, len_2),
                                          Slice(fhe_str.chars, index, index + len_2))
        ELSE IF fhe_str.is_encrypted /\ ~pat.is_encrypted
        THEN eq_same_size_fhe_chars_chars(Slice(fhe_str.fhe_chars, index, index + len_2),
                                          Slice(pat.chars, 0, len_2))
        ELSE eq_same_size_fhe_chars(Slice(fhe_str.fhe_chars, index, index + len_2),
                                    Slice(pat.fhe_chars, 0, len_2))

\* contains_at_index that compares the bytes and takes no byte of the
\* pattern for padding
contains_at_index_exact(fhe_str, pat, start_2, end_2, index) ==
    /\ index + (end_2 - start_2) <= VLen(fhe_str)
    /\ \A k \in 1..(end_2 - start_2) :
           At(Bytes(fhe_str), index + k - 1) = At(Bytes(pat), start_2 + k - 1)

RECURSIVE contains_at_index(_, _, _, _, _)
contains_at_index(fhe_str, pat, start_2, end_2, index) ==
    LET trivial == contains_trivially_indices(fhe_str, pat, start_2, end_2, index)
        len_2 == end_2 - start_2
    IN  IF trivial.some THEN trivial.value
        ELSE IF len_2 + index > VLen(fhe_str)
        THEN LET extra_length == len_2 + index - VLen(fhe_str)
                 is_contained_no_extra ==
                     contains_at_index(fhe_str, pat, 0, len_2 - extra_length, index)
                 is_empty_extra ==
                     is_empty_indices(pat, len_2 - extra_length, len_2 - 1)
             IN  is_contained_no_extra /\ is_empty_extra
        ELSE IF ~fhe_str.is_encrypted /\ ~pat.is_encrypted
        THEN eq_same_size_indices(fhe_str, index, index + len_2, pat, 0, len_2)
        ELSE IF ~fhe_str.is_encrypted /\ pat.is_encrypted
        THEN \A k \in 1..len_2 :
                 LET c == At(fhe_str.chars, index + k - 1)
                     fhe_c == At(pat.fhe_chars, start_2 + k - 1)
                 IN  fhe_c = c % CharModulus \/ fhe_c = 0
        ELSE \A k \in 1..len_2 :
                 LET fhe_c_1 == At(fhe_str.fhe_chars, index + k - 1)
                     fhe_c_2 == At(pat.fhe_chars, start_2 + k - 1)
                 IN  fhe_c_1 = fhe_c_2 \/ fhe_c_2 = 0

contains_at_index_vec(fhe_str, pat) ==
    IF ~pat.is_padded
    THEN [k \in 1..(VLen(fhe_str) - VLen(pat) + 1) |->
            contains_at_index_no_padding(fhe_str, pat, k - 1)]
    ELSE [k \in 1..VLen(fhe_str) |->
            contains_at_index(fhe_str, pat, 0, VLen(pat), k - 1)]

\* the calls that panic: assert_is_reusable, the empty index range
\* 0..=len-1 of a visibly empty string, and the fhe_chars slice of a clear
\* pattern flagged padded
contains_panics(fhe_str, pat) ==
    \/ assert_is_reusable_fails(fhe_str, pat)
    \/ /\ ~contains_trivially(fhe_str, pat, 0).some
       /\ pat.is_padded
       /\ VLen(fhe_str) = 0 \/ (fhe_str.is_encrypted /\ ~pat.is_encrypted)

contains(fhe_str, pat) ==
    LET trivial == contains_trivially(fhe_str, pat, 0)
    IN  IF trivial.some THEN trivial.value
        ELSE \E k \in DOMAIN contains_at_index_vec(fhe_str, pat) :
                 contains_at_index_vec(fhe_str, pat)[k]

starts_with(fhe_str, pat) ==
    LET trivial == contains_trivially(fhe_str, pat, 0)
    IN  IF trivial.some THEN trivial.value
        ELSE IF ~pat.is_padded THEN contains_at_index_no_padding(fhe_str, pat, 0)
        ELSE contains_at_index(fhe_str, pat, 0, VLen(pat), 0)

ends_with(fhe_str, pat) ==
    LET trivial == contains_trivially(fhe_str, pat, 0)
    IN  IF trivial.some THEN trivial.value
        ELSE IF ~fhe_str.is_padded /\ ~pat.is_padded
        THEN contains_at_index_no_padding(fhe_str, pat, VLen(fhe_str) - VLen(pat))
        ELSE IF fhe_str.is_padded /\ ~pat.is_padded
        THEN LET hidden_len_1 == ServerKey_len(fhe_str)
                 len_2 == VLen(pat)
             IN  \E index \in 0..(VLen(fhe_str) - 1) :
                     /\ contains_at_index_no_padding(fhe_str, pat, index)
                     /\ hidden_len_1 <= len_2 + index
        ELSE LET hidden_len_1 == ServerKey_len(fhe_str)
                 hidden_len_2 == ServerKey_len(pat)
                 n_blocks == compute_blocks_for_len(VLen(fhe_str))
                 modulus == RadixModulus(Max(n_blocks, compute_blocks_for_len(VLen(pat))))
             IN  \/ \E index \in 0..(VLen(fhe_str) - 1) :
                        /\ contains_at_index(fhe_str, pat, 0, VLen(pat), index)
                        /\ (hidden_len_2 + index) % modulus >= hidden_len_1
                 \/ is_empty(pat)

find_or_rfind(fhe_str, pat, reverse_) ==
    LET trivial == contains_trivially(fhe_str, pat, 0)
    IN  IF trivial.some
        THEN [index |-> IF reverse_ THEN ServerKey_len(fhe_str) ELSE 0,
              found |-> trivial.value]
        ELSE
        LET vec == contains_at_index_vec(fhe_str, pat)
            len == Len(vec)
            n_blocks == compute_blocks_for_len(len)
            match_index(index) == IF reverse_ THEN len - 1 - index ELSE index
            is_all_zeros == [i \in 1..(len + 1) |->
                               \A j \in 0..(i - 2) : ~At(vec, match_index(j))]
            to_add_vec == [k \in 1..len |->
                             LET index == k - 1
                             IN  (index * Bit(At(is_all_zeros, match_index(index))
                                              /\ At(vec, index)))
                                     % RadixModulus(n_blocks)]
            index_sum == SumSeq(to_add_vec) % RadixModulus(n_blocks)
            index_found == ~is_all_zeros[len + 1]
        IN  IF reverse_ /\ pat.is_padded
            THEN [index |-> IF is_empty(pat) THEN ServerKey_len(fhe_str) ELSE index_sum,
                  found |-> is_empty(pat) \/ index_found]
            ELSE [index |-> index_sum, found |-> index_found]

find(fhe_str, pat) == find_or_rfind(fhe_str, pat, FALSE)

rfind(fhe_str, pat) == find_or_rfind(fhe_str, pat, TRUE)

(***************************************************************************)
(* The string searches and splits of the standard library, which the       *)
(* clear paths call.                                                       *)
(***************************************************************************)
\* str::contains, str::find, str::rfind of the standard library
PlainOccursAt(s, t, i) ==
    /\ i + Len(t) <= Len(s)
    /\ \A k \in 1..Len(t) : s[i + k] = t[k]

PlainOccurrences(s, t) == {i \in 0..Len(s) : PlainOccursAt(s, t, i)}

PlainContains(s, t) == PlainOccurrences(s, t) /= {}

PlainFind(s, t) == CHOOSE i \in PlainOccurrences(s, t) :
                       \A j \in PlainOccurrences(s, t) : i <= j

PlainRFind(s, t) == CHOOSE i \in PlainOccurrences(s, t) :
                        \A j \in PlainOccurrences(s, t) : i >= j

\* the starts of the matches a split takes, left to right from index from_;
\* a match of the empty pattern is followed by the next at the next index
RECURSIVE PlainMatches(_, _, _)
PlainMatches(s, t, from_) ==
    LET later == {i \in PlainOccurrences(s, t) : i >= from_}
    IN  IF later = {} THEN <<>>
        ELSE LET i == CHOOSE i \in later : \A j \in later : i <= j
             IN  <<i>> \o PlainMatches(s, t, IF Len(t) = 0 THEN i + 1 ELSE i + Len(t))

\* the fields cut at the matches ms: each ends where a match starts (where
\* it ends if inclusive_), the last is the remainder of s
PlainFields(s, t, ms, inclusive_) ==
    [j \in 1..(Len(ms) + 1) |->
        LET from_ == IF j = 1 THEN 0 ELSE ms[j - 1] + Len(t)
            to_ == IF j = Len(ms) + 1 THEN Len(s)
                   ELSE IF inclusive_ THEN ms[j] + Len(t) ELSE ms[j]
        IN  Slice(s, from_, to_)]

DropLastIfEmpty(fields) ==
    IF fields /= <<>> /\ fields[Len(fields)] = <<>>
    THEN SubSeq(fields, 1, Len(fields) - 1) ELSE fields

\* str::split
PlainSplit(s, t) == PlainFields(s, t, PlainMatches(s, t, 0), FALSE)

\* str::splitn
PlainSplitN(count, s, t) ==
    IF count = 0 THEN <<>>
    ELSE LET ms == PlainMatches(s, t, 0)
             k == IF Len(ms) < count - 1 THEN Len(ms) ELSE count - 1
         IN  PlainFields(s, t, SubSeq(ms, 1, k), FALSE)

\* [String]::join
RECURSIVE Join(_, _)
Join(fields, separator) ==
    IF Len(fields) = 0 THEN <<>>
    ELSE IF Len(fields) = 1 THEN fields[1]
    ELSE fields[1] \o separator \o Join(Tail(fields), separator)

\* str::replace and str::replacen: the matches of from_, the first count of
\* them for replacen, are cut out and to_ is put in their place
PlainReplace(s, from_, to_) == Join(PlainSplit(s, from_), to_)

PlainReplaceN(s, from_, to_, count) == Join(PlainSplitN(count + 1, s, from_), to_)

\* str::split_terminator
PlainSplitTerminator(s, t) == DropLastIfEmpty(PlainSplit(s, t))

\* str::split_inclusive
PlainSplitInclusive(s, t) ==
    DropLastIfEmpty(PlainFields(s, t, PlainMatches(s, t, 0), TRUE))

(***************************************************************************)
(* server_key/trim.rs                                                      *)
(***************************************************************************)
is_whitespace(fhe_str) ==
    [k \in 1..VLen(fhe_str) |->
        LET c == fhe_str.fhe_chars[k]
        IN  (c = 10 \/ c = 9) \/ c = 32]

keep_starting_whitespaces_only(is_ws) ==
    [k \in 1..Len(is_ws) |-> \A j \in 1..k : is_ws[j]]

keep_ending_whitespaces_only(fhe_str, is_ws) ==
    LET len == VLen(fhe_str)
    IN  IF ~fhe_str.is_padded
        THEN [k \in 1..len |-> \A j \in k..len : is_ws[j]]
        ELSE [k \in 1..len |->
                \A j \in k..len : is_ws[j] \/ fhe_str.fhe_chars[j] = 0]

trim_start_reusable_or_not_vec(fhe_str, reusable, is_ws) ==
    LET len == VLen(fhe_str)
    IN  IF ~reusable
        THEN LET is_starting_whitespace == keep_starting_whitespaces_only(is_ws)
                 res_vec == set_zero_where(fhe_str, is_starting_whitespace)
             IN  from_encrypted(res_vec, fhe_str.is_padded, len = 0)
        ELSE LET only_ones_before(k) == \A j \in 1..k : is_ws[j]
                 first_non_ws == [k \in 1..len |->
                                    only_ones_before(k) /= only_ones_before(k - 1)]
             IN  left_shift(fhe_str, first_non_ws, fhe_str.is_reusable)

\* str::trim_start, str::trim_end of the clear path
RECURSIVE ClearTrimStart(_)
ClearTrimStart(s) ==
    IF s /= <<>> /\ Head(s) \in {32, 9, 10, 11, 12, 13} THEN ClearTrimStart(Tail(s))
    ELSE s

ClearTrimEnd(s) == Rev(ClearTrimStart(Rev(s)))

trim_start_reusable_or_not(fhe_str, reusable) ==
    IF ~fhe_str.is_reusable THEN PANIC
    ELSE IF ~fhe_str.is_encrypted THEN from_string(ClearTrimStart(to_string(fhe_str)))
    ELSE trim_start_reusable_or_not_vec(fhe_str, reusable, is_whitespace(fhe_str))

trim_start(fhe_str) == trim_start_reusable_or_not(fhe_str, FALSE)

trim_start_reusable(fhe_str) == trim_start_reusable_or_not(fhe_str, TRUE)

trim_end(fhe_str) ==
    IF ~fhe_str.is_reusable THEN PANIC
    ELSE IF ~fhe_str.is_encrypted THEN from_string(ClearTrimEnd(to_string(fhe_str)))
    ELSE LET is_ws == is_whitespace(fhe_str)
             is_ending_whitespace == keep_ending_whitespaces_only(fhe_str, is_ws)
             trimmed_vec == set_zero_where(fhe_str, is_ending_whitespace)
         IN  from_encrypted(trimmed_vec, VLen(fhe_str) > 0, TRUE)

trim_reusable_or_not(fhe_str, reusable) ==
    IF ~fhe_str.is_reusable THEN PANIC
    ELSE IF ~fhe_str.is_encrypted
    THEN from_string(ClearTrimEnd(ClearTrimStart(to_string(fhe_str))))
    ELSE LET is_ws == is_whitespace(fhe_str)
             is_ending_whitespace == keep_ending_whitespaces_only(fhe_str, is_ws)
             trimmed_end_vec == set_zero_where(fhe_str, is_ending_whitespace)
             fhe_string_trimmed_end == from_encrypted(trimmed_end_vec, TRUE, TRUE)
             is_starting_whitespace == keep_starting_whitespaces_only(is_ws)
         IN  trim_start_reusable_or_not_vec(fhe_string_trimmed_end, reusable,
                                            is_starting_whitespace)

trim(fhe_str) == trim_reusable_or_not(fhe_str, FALSE)

\* str::strip_suffix: the string without the suffix, and whether it was there
PlainStripSuffix(s, p) ==
    IF Len(p) <= Len(s) /\ Slice(s, Len(s) - Len(p), Len(s)) = p
    THEN [string |-> Slice(s, 0, Len(s) - Len(p)), found |-> TRUE]
    ELSE [string |-> s, found |-> FALSE]

\* strip_suffix that returns the string cut at the suffix it has found
strip_suffix_truncating(fhe_str, pat) ==
    LET option == PlainStripSuffix(TrimEndZeros(Bytes(fhe_str)),
                                   TrimEndZeros(Bytes(pat)))
    IN  [string |-> from_encrypted(option.string, FALSE, TRUE),
         found |-> option.found]

strip_suffix(fhe_str, pat) ==
    IF ~fhe_str.is_encrypted /\ ~pat.is_encrypted
    THEN LET option == PlainStripSuffix(to_string(fhe_str), to_string(pat))
         IN  IF option.found
             THEN [string |-> from_string(option.string), found |-> TRUE]
             ELSE [string |-> fhe_str, found |-> FALSE]
    ELSE IF VLen(fhe_str) = 0 THEN [string |-> fhe_str, found |-> is_empty(pat)]
    ELSE IF VLen(pat) = 0 THEN [string |-> fhe_str, found |-> TRUE]
    ELSE IF VLen(fhe_str) < VLen(pat) /\ ~pat.is_padded
    THEN [string |-> fhe_str, found |-> FALSE]
    ELSE
    LET ends_with_ == ends_with(fhe_str, pat)
        to_remove ==
            IF ~fhe_str.is_padded /\ ~pat.is_padded
            THEN LET sufix_start_index == VLen(fhe_str) - VLen(pat)
                 IN  [k \in 1..VLen(fhe_str) |->
                        sufix_start_index <= k - 1 /\ ends_with_]
            ELSE LET len_1 == ServerKey_len(fhe_str)
                     len_2 == ServerKey_len(pat)
                     blocks_2 == compute_blocks_for_len(VLen(pat))
                     conditional_len_2 ==
                         (len_2 * Bit(ends_with_)) % RadixModulus(blocks_2)
                     modulus ==
                         RadixModulus(Max(compute_blocks_for_len(VLen(fhe_str)), blocks_2))
                     sufix_start_index ==
                         (len_1 + modulus - conditional_len_2) % modulus
                 IN  [k \in 1..VLen(fhe_str) |->
                        sufix_start_index <= k - 1 /\ ends_with_]
        fhe_string_enc ==
            IF fhe_str.is_encrypted THEN fhe_str ELSE trivial_encrypt(fhe_str, 0)
        striped_vec == set_zero_where(fhe_string_enc, to_remove)
    IN  [string |-> from_encrypted(striped_vec, TRUE, TRUE), found |-> ends_with_]

\* make_reusable: nth_indices, the cumulated sum of the one-block "is not
\* null" values
RECURSIVE NthIndices(_, _)
NthIndices(fhe_chars, i) ==
    IF i = 0 THEN <<>>
    ELSE LET before == NthIndices(fhe_chars, i - 1)
             res == Bit(fhe_chars[i] /= 0)
         IN  Append(before,
                    IF i = 1 THEN res
                    ELSE (res + before[i - 1]) % RadixModulus(1))

make_reusable(fhe_str) ==
    IF fhe_str.is_reusable \/ VLen(fhe_str) = 0 \/ ~fhe_str.is_encrypted THEN PANIC
    ELSE LET len == VLen(fhe_str)
             nth_indices == NthIndices(fhe_str.fhe_chars, len)
             tidy_vec ==
                 [n_ \in 1..len |->
                     SumSeq([index \in 1..(len - n_ + 1) |->
                         LET real_index == index + n_ - 1
                             is_equal_n == nth_indices[real_index] = n_
                         IN  fhe_str.fhe_chars[real_index] * Bit(is_equal_n)])
                     % CharModulus]
         IN  from_encrypted(tidy_vec, TRUE, TRUE)

(***************************************************************************)
(* server_key/mod.rs: if_then_else_fhe_string                              *)
(***************************************************************************)
if_then_else_fhe_string(condition, fhe_str_1, fhe_str_2) ==
    LET len_1 == VLen(fhe_str_1)
        len_2 == VLen(fhe_str_2)
        m == IF len_1 > len_2 THEN len_1 ELSE len_2
        values == [k \in 1..m |->
                     IF k > len_1
                     THEN (IF condition THEN 0 ELSE fhe_str_2.fhe_chars[k])
                     ELSE IF k > len_2
                     THEN (IF condition THEN fhe_str_1.fhe_chars[k] ELSE 0)
                     ELSE (IF condition THEN fhe_str_1.fhe_chars[k]
                           ELSE fhe_str_2.fhe_chars[k])]
    IN  from_encrypted(values,
                       fhe_str_1.is_padded \/ fhe_str_2.is_padded,
                       fhe_str_1.is_reusable /\ fhe_str_2.is_reusable)

\* str::strip_prefix: the string without the prefix, and whether it was there
PlainStripPrefix(s, p) ==
    IF Len(p) <= Len(s) /\ Slice(s, 0, Len(p)) = p
    THEN [string |-> Slice(s, Len(p), Len(s)), found |-> TRUE]
    ELSE [string |-> s, found |-> FALSE]

\* the vector given to left_shift: a one at the hidden length of the pattern
\* when the prefix is there, a one at index 0 when it is not
StripPrefixIndexVec(pat, starts_with_) ==
    [k \in 1..VLen(pat) |->
        (ServerKey_len(pat) = k - 1 /\ starts_with_) \/ (k = 1 /\ ~starts_with_)]

strip_prefix_reusable(fhe_str, pat) ==
    IF ~fhe_str.is_encrypted /\ ~pat.is_encrypted
    THEN LET option == PlainStripPrefix(to_string(fhe_str), to_string(pat))
         IN  IF option.found
             THEN [string |-> from_string(option.string), found |-> TRUE]
             ELSE [string |-> fhe_str, found |-> FALSE]
    ELSE IF VLen(fhe_str) = 0 THEN [string |-> fhe_str, found |-> is_empty(pat)]
    ELSE IF VLen(pat) = 0 THEN [string |-> fhe_str, found |-> TRUE]
    ELSE Only({
        IF ~pat.is_padded
        THEN IF VLen(fhe_str) < VLen(pat) THEN [string |-> fhe_str, found |-> FALSE]
             ELSE Only({
                      [string |-> if_then_else_fhe_string(
                                      starts_with_,
                                      pad(IF shifted_string.is_encrypted THEN shifted_string
                                          ELSE trivial_encrypt(shifted_string, 0),
                                          VLen(fhe_str) - VLen(pat)),
                                      fhe_string_enc),
                       found |-> starts_with_]
                      : shifted_string \in
                            {sub_string(fhe_str, VLen(pat), VLen(fhe_str) - 1)}})
        ELSE [string |-> left_shift(fhe_string_enc,
                                    StripPrefixIndexVec(pat, starts_with_),
                                    fhe_str.is_reusable),
              found |-> starts_with_]
        : starts_with_ \in {starts_with(fhe_str, pat)},
          fhe_string_enc \in {IF fhe_str.is_encrypted THEN fhe_str
                              ELSE trivial_encrypt(fhe_str, 0)}})

(***************************************************************************)
(* server_key/split.rs.  split_general is modelled for one pattern and     *)
(* ascii_whitespace = false, the way split, splitn, split_inclusive and    *)
(* split_terminator call it.                                               *)
(***************************************************************************)
\* the range that keeps the fields of the pattern occurrences too
SteppedRange_every(len_split, step) ==
    [k \in 1..len_split |-> k - 1]

\* (0..len_split).step_by(step)
SteppedRange(len_split, step) ==
    [k \in 1..((len_split + step - 1) \div step) |-> (k - 1) * step]


split_result(fhe_str, pattern_is_padded, pattern_len, cum_sum, stepped_range) ==
    LET min_len_pattern == IF pattern_is_padded THEN 1 ELSE pattern_len
        step == IF Len(stepped_range) > 1 THEN stepped_range[2] ELSE 1
        field(index_split) ==
            LET first == (index_split \div step) * min_len_pattern
                ne_index == [k \in 1..Len(cum_sum) |->
                                IF k - 1 >= first THEN cum_sum[k] /= index_split
                                ELSE FALSE]
                cum_sum_ne_index ==
                    IF VLen(fhe_str) > Len(ne_index)
                    THEN ne_index \o [k \in 1..(VLen(fhe_str) - Len(ne_index)) |->
                                         ne_index[Len(ne_index)]]
                    ELSE SubSeq(ne_index, 1, VLen(fhe_str))
                index_start == Min(first, VLen(fhe_str))
            IN  from_encrypted(
                    set_zero_where_indices(fhe_str, cum_sum_ne_index,
                                           index_start, VLen(fhe_str)),
                    TRUE,
                    index_split = 0 \/ (VLen(fhe_str) - index_start) = 0)
    IN  [k \in 1..Len(stepped_range) |-> field(stepped_range[k])]

\* the sequential loop of split_general over contains_at_index_vec: st holds
\* pattern_start_index, first_one_seen, cum_sum and
\* pattern_start_index_plus_pattern_length after the indices below index
RECURSIVE CumSumLoop(_, _, _, _, _, _, _, _)
CumSumLoop(vec, encrypted_pattern_length, modulus, splitn, n_times, inclusive, index, st) ==
    IF index >= Len(vec) THEN st
    ELSE
    LET contains_here == At(vec, index)
        is_first_one == contains_here /\ ~st.first_one_seen
        plus_length == (st.pattern_start_index + encrypted_pattern_length) % modulus
        pattern_just_ended == plus_length = index /\ st.first_one_seen
        pattern_ended == plus_length <= index /\ st.first_one_seen
        pattern_starts == is_first_one \/ (contains_here /\ pattern_ended)
        sum == IF index = 0
               THEN (IF inclusive THEN 0 ELSE Bit(pattern_starts))
               ELSE LET prev == At(st.cum_sum, index - 1)
                        s0 == IF inclusive THEN prev
                              ELSE (prev + Bit(pattern_starts)) % modulus
                        s1 == (s0 + Bit(pattern_just_ended)) % modulus
                    IN  IF splitn /\ s1 > 2 * n_times
                        THEN (2 * n_times) % modulus ELSE s1
    IN  CumSumLoop(vec, encrypted_pattern_length, modulus, splitn, n_times,
                   inclusive, index + 1,
                   [pattern_start_index |->
                        IF pattern_starts THEN index % modulus
                        ELSE st.pattern_start_index,
                    first_one_seen |-> st.first_one_seen \/ contains_here,
                    cum_sum |-> Append(st.cum_sum, sum),
                    plus_length |-> plus_length])

\* the number of fields split_general reports for a string of zeros only
number_of_fields_if_string_empty(splitn, n_times, inclusive, terminator, rsplit_terminator) ==
    IF terminator \/ inclusive \/ (splitn /\ n_times = 0) \/ rsplit_terminator
    THEN 1 ELSE 2

\* the calls of split_general that panic: the fhe_chars slice of a clear
\* pattern flagged padded against an encrypted string
split_general_panics(fhe_str, pat) ==
    /\ VLen(fhe_str) > 0 /\ VLen(pat) > 0
    /\ pat.is_padded
    /\ fhe_str.is_encrypted /\ ~pat.is_encrypted

split_general(fhe_str, pat, splitn, n_times, inclusive, terminator, rsplit_terminator) ==
    LET string_len == VLen(fhe_str)
        pattern_is_encrypted == pat.is_encrypted
        pattern_is_padded == pat.is_padded
        pattern_len == VLen(pat)
    IN
    \* trivial result: the string is visibly empty
    IF string_len = 0
    THEN LET res == IF ~inclusive /\ ~terminator /\ ~rsplit_terminator
                    THEN <<fhe_str>> ELSE <<>>
             is_pattern_empty == is_empty(pat)
         IN  [strings |-> Append(res, fhe_str),
              number_of_fields |-> ((Len(res) % 4) + Bit(is_pattern_empty)) % 4,
              found |-> is_pattern_empty,
              is_pattern_empty |-> TRUE]
    \* trivial result: an unpadded pattern longer than the string
    ELSE IF ~pattern_is_padded /\ pattern_len > string_len
    THEN [strings |-> <<IF ~fhe_str.is_encrypted /\ pattern_is_encrypted
                        THEN trivial_encrypt(fhe_str, 0) ELSE fhe_str>>,
          number_of_fields |-> 1,
          found |-> FALSE,
          is_pattern_empty |-> FALSE]
    \* clear inputs
    ELSE IF ~fhe_str.is_encrypted /\ ~pattern_is_encrypted
    THEN LET s == to_string(fhe_str)
             pattern_string == to_string(pat)
             vec == IF splitn THEN PlainSplitN(n_times + 1, s, pattern_string)
                    ELSE IF inclusive THEN PlainSplitInclusive(s, pattern_string)
                    ELSE IF terminator THEN PlainSplitTerminator(s, pattern_string)
                    ELSE PlainSplit(s, pattern_string)
             all_fields == [k \in 1..Len(vec) |-> from_string(vec[k])]
             split_vec == IF rsplit_terminator THEN Tail(all_fields) ELSE all_fields
         IN  [strings |-> split_vec,
              number_of_fields |->
                  Len(split_vec) % RadixModulus(compute_blocks_for_len(Len(split_vec))),
              found |-> PlainContains(s, pattern_string),
              is_pattern_empty |-> pattern_len = 0]
    ELSE
    LET \* the result for an empty pattern: one field a character
        chars_as_fields ==
            [i \in 1..string_len |->
                IF fhe_str.is_encrypted
                THEN from_encrypted(<<fhe_str.fhe_chars[i]>>, TRUE, TRUE)
                ELSE trivial_encrypt(from_string(<<fhe_str.chars[i]>>), 0)]
        results_from_empty ==
            (IF ~rsplit_terminator THEN <<empty_encrypted>> ELSE <<>>)
                \o chars_as_fields
                \o (IF ~terminator /\ ~inclusive /\ ~(splitn /\ n_times < string_len)
                    THEN <<empty_encrypted>> ELSE <<>>)
        encrypted_len_empty ==
            Len(results_from_empty)
                % RadixModulus(compute_blocks_for_len(Len(results_from_empty)))
        if_string_empty ==
            number_of_fields_if_string_empty(splitn, n_times, inclusive, terminator,
                                             rsplit_terminator)
    IN
    \* the empty pattern with no padding
    IF pattern_len = 0
    THEN [strings |-> results_from_empty,
          number_of_fields |-> IF is_empty(fhe_str) THEN if_string_empty
                               ELSE encrypted_len_empty,
          found |-> TRUE,
          is_pattern_empty |-> TRUE]
    ELSE
    \* found_vec, st and split_results are each computed once
    Only({
    LET contains_vec ==
            found_vec \o [k \in 1..(string_len - Len(found_vec)) |-> FALSE] \o <<FALSE>>
        len == Len(contains_vec)
        n_blocks == compute_blocks_for_len(Max(len, pattern_len))
        modulus == RadixModulus(n_blocks)
        encrypted_pattern_length == ServerKey_len(pat)
        encrypted_string_length == ServerKey_len(fhe_str)
        len_split ==
            IF splitn THEN 2 * (n_times + 1)
            ELSE IF inclusive
            THEN (IF ~pattern_is_padded
                  THEN (string_len + pattern_len - 1) \div pattern_len
                  ELSE string_len)
            ELSE (IF ~pattern_is_padded THEN 1 + (2 * string_len) \div pattern_len
                  ELSE 2 * string_len)
                 - Bit(terminator)
        stepped_range == SteppedRange(len_split, 2 - Bit(inclusive))
    IN
    Only({
    LET cum_sum == st.cum_sum
        last_val == cum_sum[Len(cum_sum)]
        counted == IF inclusive THEN (last_val + 1) % modulus
                   ELSE ((last_val + 2) % modulus) \div 2
        pattern_ends_string == st.plus_length = encrypted_string_length
        number_of_fields ==
            IF terminator THEN (counted + modulus - Bit(pattern_ends_string)) % modulus
            ELSE counted
    IN
    Only({
    \* a non-empty pattern with no padding
    IF pattern_len > 0 /\ ~pattern_is_padded
    THEN [strings |-> split_results,
          number_of_fields |-> IF is_empty(fhe_str) THEN if_string_empty
                               ELSE number_of_fields,
          found |-> st.first_one_seen,
          is_pattern_empty |-> FALSE]
    ELSE
    \* the pattern may be empty with padding: blend with results_from_empty
    LET is_pattern_empty == encrypted_pattern_length = 0
        final_results ==
            [k \in 1..Max(Len(split_results), Len(results_from_empty)) |->
                IF k > Len(split_results)
                THEN if_then_else_fhe_string(is_pattern_empty, results_from_empty[k],
                                             empty_encrypted)
                ELSE IF k > Len(results_from_empty)
                THEN if_then_else_fhe_string(is_pattern_empty, empty_encrypted,
                                             split_results[k])
                ELSE if_then_else_fhe_string(is_pattern_empty, results_from_empty[k],
                                             split_results[k])]
        is_string_empty == encrypted_string_length = 0
        len_empty_modulus == RadixModulus(compute_blocks_for_len(Len(results_from_empty)))
        len_empty == (encrypted_len_empty + len_empty_modulus - Bit(is_string_empty))
                         % len_empty_modulus
        fields_unless_empty == IF is_pattern_empty THEN len_empty ELSE number_of_fields
        fields_if_empty == (if_string_empty + 4 - Bit(~is_pattern_empty)) % 4
    IN  [strings |-> final_results,
         number_of_fields |-> IF is_string_empty THEN fields_if_empty
                              ELSE fields_unless_empty,
         found |-> st.first_one_seen \/ is_pattern_empty,
         is_pattern_empty |-> is_pattern_empty]
    : split_results \in
        {split_result(IF fhe_str.is_encrypted THEN fhe_str
                      ELSE trivial_encrypt(fhe_str, 0),
                      pattern_is_padded, pattern_len, st.cum_sum, stepped_range)}})
    : st \in
        {CumSumLoop(contains_vec, encrypted_pattern_length, modulus, splitn,
                    n_times, inclusive, 0,
                    [pattern_start_index |-> 0, first_one_seen |-> FALSE,
                     cum_sum |-> <<>>, plus_length |-> 0])}})
    : found_vec \in {contains_at_index_vec(fhe_str, pat)}})

unchecked_split(fhe_str, pat) ==
    split_general(fhe_str, pat, FALSE, 0, FALSE, FALSE, FALSE)

split(fhe_str, pat) == unchecked_split(fhe_str, pat)

split_terminator(fhe_str, pat) ==
    split_general(fhe_str, pat, FALSE, 0, FALSE, TRUE, FALSE)

split_inclusive(fhe_str, pat) ==
    split_general(fhe_str, pat, FALSE, 0, TRUE, FALSE, FALSE)

\* unchecked_splitn that caps the fields at n_times + 1
unchecked_splitn_one_more(n_times, fhe_str, pat) ==
    split_general(fhe_str, pat, TRUE, n_times, FALSE, FALSE, FALSE)

unchecked_splitn(n_times, fhe_str, pat) ==
    split_general(fhe_str, pat, TRUE, n_times - 1, FALSE, FALSE, FALSE)

splitn(n_times, fhe_str, pat) ==
    IF n_times = 0
    THEN [strings |-> <<>>, number_of_fields |-> 0,
          found |-> FALSE, is_pattern_empty |-> FALSE]
    ELSE IF n_times = 1
    THEN [strings |-> <<fhe_str>>, number_of_fields |-> 1,
          found |-> FALSE, is_pattern_empty |-> FALSE]
    ELSE unchecked_splitn(n_times, fhe_str, pat)

left_shift_assert_fails(fhe_str) ==
    ~(VLen(fhe_str) > 0 /\ fhe_str.is_encrypted /\ fhe_str.is_padded
        /\ ~fhe_str.is_reusable)

left_shift_reverse(fhe_str) ==
    LET len == VLen(fhe_str)
        modulus == RadixModulus(compute_blocks_for_len(len))
        true_len == ServerKey_len(fhe_str)
        len_minus_true_len == ((len % modulus) + modulus - true_len) % modulus
        index_is_len_minus_true_len ==
            [k \in 1..len |-> len_minus_true_len = k - 1]
    IN  left_shift(fhe_str, index_is_len_minus_true_len, TRUE)

left_shift_field(fhe_str) ==
    LET first_non_zero ==
            [k \in 1..VLen(fhe_str) |->
                /\ fhe_str.fhe_chars[k] /= 0
                /\ \A j \in 1..(k - 1) : fhe_str.fhe_chars[j] = 0]
    IN  left_shift(fhe_str, first_non_zero, TRUE)

reverse_inputs(fhe_str, pat) ==
    LET reverse_fhe_string == reverse(fhe_str)
        reverse_pattern == reverse(pat)
    IN  [string |-> reverse_fhe_string,
         pattern |-> IF reverse_pattern.is_padded
                     THEN left_shift_reverse(reverse_pattern)
                     ELSE reverse_pattern]

\* the fields left_shift_field refuses
make_split_reusable_panics(split_res) ==
    \E res \in {split_res} :
        /\ Len(res.strings) > 1
        /\ \E index \in 2..Len(res.strings) :
               /\ ~res.strings[index].is_reusable
               /\ left_shift_assert_fails(res.strings[index])

make_split_reusable(split_res) ==
    Only({IF Len(res.strings) <= 1 THEN res
          ELSE [res EXCEPT !.strings =
                  [index \in 1..Len(res.strings) |->
                      IF index = 1 \/ res.strings[index].is_reusable
                      THEN res.strings[index]
                      ELSE left_shift_field(res.strings[index])]] :
          res \in {split_res}})

split_reusable(fhe_str, pat) == make_split_reusable(split(fhe_str, pat))

\* the calls of rsplit that panic: assert_is_reusable, left_shift_reverse of
\* the reversed pattern, split_general
rsplit_panics(fhe_str, pat) ==
    \/ assert_is_reusable_fails(fhe_str, pat)
    \/ reverse(pat).is_padded /\ left_shift_assert_fails(reverse(pat))
    \/ \E reversed \in {reverse_inputs(fhe_str, pat)} :
           split_general_panics(reversed.string, reversed.pattern)

rsplit(fhe_str, pat) ==
    Only({Only({[reverse_split EXCEPT !.strings =
                    [k \in 1..Len(reverse_split.strings) |->
                        reverse(reverse_split.strings[k])]] :
                reverse_split \in {unchecked_split(reversed.string, reversed.pattern)}}) :
          reversed \in {reverse_inputs(fhe_str, pat)}})

rsplit_reusable(fhe_str, pat) == make_split_reusable(rsplit(fhe_str, pat))

\* str::split_ascii_whitespace: the maximal runs of non-whitespace bytes
\* (whitespace: space, \t, \n, form feed, \r)
AsciiWhitespace == {32, 9, 10, 12, 13}

RECURSIVE PlainRuns(_, _, _, _)
PlainRuns(s, spaces, from_, current) ==
    IF from_ > Len(s)
    THEN (IF Len(current) > 0 THEN <<current>> ELSE <<>>)
    ELSE IF s[from_] \in spaces
    THEN (IF Len(current) > 0 THEN <<current>> ELSE <<>>)
             \o PlainRuns(s, spaces, from_ + 1, <<>>)
    ELSE PlainRuns(s, spaces, from_ + 1, Append(current, s[from_]))

PlainSplitAsciiWhitespace(s) == PlainRuns(s, AsciiWhitespace, 1, <<>>)

\* the loop of split_general when ascii_whitespace is true
RECURSIVE WhitespaceCumSum(_, _, _, _, _)
WhitespaceCumSum(vec, fhe_str, modulus, index, cum_sum) ==
    IF index >= Len(vec) THEN cum_sum
    ELSE LET sum ==
                 IF index = 0 THEN Bit(At(vec, 0))
                 ELSE LET changes == At(vec, index) /= At(vec, index - 1)
                          is_not_padding == ServerKey_len(fhe_str) > index
                          counted == IF fhe_str.is_padded
                                     THEN changes /\ is_not_padding
                                     ELSE changes
                      IN  (At(cum_sum, index - 1) + Bit(counted)) % modulus
         IN  WhitespaceCumSum(vec, fhe_str, modulus, index + 1, Append(cum_sum, sum))

\* split_general called with ascii_whitespace = true and no pattern
split_general_ascii_whitespace(fhe_str) ==
    LET string_len == VLen(fhe_str)
    IN
    IF string_len = 0
    THEN [strings |-> <<>>, number_of_fields |-> 0,
          found |-> FALSE, is_pattern_empty |-> TRUE]
    ELSE IF ~fhe_str.is_encrypted
    THEN LET vec == PlainSplitAsciiWhitespace(to_string(fhe_str))
         IN  [strings |-> [k \in 1..Len(vec) |-> from_string(vec[k])],
              number_of_fields |->
                  Len(vec) % RadixModulus(compute_blocks_for_len(Len(vec))),
              found |-> \E k \in DOMAIN fhe_str.chars : fhe_str.chars[k] \in {32, 9, 10},
              is_pattern_empty |-> FALSE]
    ELSE
    LET contains_vec == is_whitespace(fhe_str) \o <<FALSE>>
        len == Len(contains_vec)
        n_blocks == compute_blocks_for_len(Max(len, 1))
        modulus == RadixModulus(n_blocks)
        folded == WhitespaceCumSum(contains_vec, fhe_str, modulus, 0, <<>>)
        sub_2_if_first_is_whitespace == IF At(contains_vec, 0) THEN 2 ELSE 0
        cum_sum == [k \in 1..Len(folded) |->
                       IF folded[k] >= 2
                       THEN (folded[k] + modulus - sub_2_if_first_is_whitespace) % modulus
                       ELSE folded[k]]
        len_split == 1 + 2 * string_len
        stepped_range == SteppedRange(len_split, 2)
        number_of_fields == ((cum_sum[Len(cum_sum)] + 2) % modulus) \div 2
    IN  [strings |-> split_result(fhe_str, FALSE, 1, cum_sum, stepped_range),
         number_of_fields |-> IF is_empty(fhe_str) THEN 0 ELSE number_of_fields,
         found |-> \E k \in DOMAIN contains_vec : contains_vec[k],
         is_pattern_empty |-> FALSE]

split_ascii_whitespace(fhe_str) == split_general_ascii_whitespace(fhe_str)

(***************************************************************************)
(* server_key/replace.rs                                                   *)
(***************************************************************************)
get_encrypted_values(fhe_str) == Bytes(fhe_str)

if_then_else_vec(condition, vec_1, vec_2) ==
    [k \in 1..Max(Len(vec_1), Len(vec_2)) |->
        IF k > Len(vec_1) THEN (IF condition THEN 0 ELSE vec_2[k])
        ELSE IF k > Len(vec_2) THEN (IF condition THEN vec_1[k] ELSE 0)
        ELSE (IF condition THEN vec_1[k] ELSE vec_2[k])]

split_pattern_empty(fhe_str, pat) ==
    split_general(fhe_str, pat, FALSE, 0, FALSE, FALSE, FALSE)

splitn_pattern_empty(n_times, fhe_str, pat) ==
    split_general(fhe_str, pat, TRUE, n_times - 1, FALSE, FALSE, FALSE)

\* the result when "from" is the empty string: a copy of "to" before every
\* character of the string and one at the end
RECURSIVE ResultFromEmptyLoop(_, _, _, _, _)
ResultFromEmptyLoop(fhe_str, to, replacen, n_times, i) ==
    IF i > VLen(fhe_str) THEN <<>>
    ELSE LET count == i + 1
             to_values == get_encrypted_values(to)
             i_lt_len == IF i < VLen(fhe_str) THEN ServerKey_len(fhe_str) > i
                         ELSE ~replacen
             to_or_zero ==
                 IF fhe_str.is_padded
                 THEN [k \in 1..VLen(to) |-> (Bit(i_lt_len) * to_values[k]) % CharModulus]
                 ELSE to_values
         IN  (IF ~replacen \/ count <= n_times THEN to_or_zero ELSE <<>>)
                 \o (IF i < VLen(fhe_str)
                     THEN <<At(get_encrypted_values(fhe_str), i)>> ELSE <<>>)
                 \o ResultFromEmptyLoop(fhe_str, to, replacen, n_times, i + 1)

\* the sequential loop of replace_or_replacen over contains_at_index_vec
RECURSIVE ReplaceLoop(_, _, _, _, _, _, _)
ReplaceLoop(vec, from_true_length, modulus, replacen, n_times, index, st) ==
    IF index >= Len(vec) THEN st
    ELSE
    LET contains_here == At(vec, index)
        is_first_one == contains_here /\ ~st.first_one_seen
        plus_length == (st.pattern_start_index + from_true_length) % modulus
        pattern_ended == plus_length <= index /\ st.first_one_seen
        pattern_starts == is_first_one \/ (contains_here /\ pattern_ended)
        not_pattern_just_ended == plus_length /= index \/ pattern_starts
        pattern_started == (st.pattern_started \/ pattern_starts)
                               /\ not_pattern_just_ended
        sum_pattern_starts ==
            IF replacen THEN (st.sum_pattern_starts + Bit(pattern_starts)) % modulus
            ELSE st.sum_pattern_starts
        sum_pattern_starts_le_n == ~replacen \/ sum_pattern_starts <= n_times
    IN  ReplaceLoop(vec, from_true_length, modulus, replacen, n_times, index + 1,
                    [pattern_start_index |->
                         IF pattern_starts THEN index % modulus
                         ELSE st.pattern_start_index,
                     first_one_seen |-> st.first_one_seen \/ contains_here,
                     pattern_started |-> pattern_started,
                     sum_pattern_starts |-> sum_pattern_starts,
                     contains_at_index_vec |->
                         Append(st.contains_at_index_vec,
                                sum_pattern_starts_le_n /\ pattern_starts),
                     is_pattern_vec |->
                         Append(st.is_pattern_vec,
                                sum_pattern_starts_le_n /\ pattern_started)])

\* the calls of replace_or_replacen that panic
replace_panics(fhe_str, from, to) ==
    \/ ~fhe_str.is_reusable \/ ~from.is_reusable \/ ~to.is_reusable
    \/ /\ ~(~from.is_padded /\ VLen(from) > VLen(fhe_str))
       /\ fhe_str.is_encrypted \/ from.is_encrypted
       /\ VLen(fhe_str) > 0 /\ VLen(from) > 0
       /\ split_general_panics(fhe_str, from)

replace_or_replacen(fhe_str, from, to, replacen, n_times) ==
    \* 0. trivial results
    IF ~from.is_padded /\ VLen(from) > VLen(fhe_str) THEN fhe_str
    ELSE IF ~fhe_str.is_encrypted /\ ~from.is_encrypted /\ ~to.is_encrypted
    THEN from_string(IF replacen
                     THEN PlainReplaceN(to_string(fhe_str), to_string(from),
                                        to_string(to), n_times)
                     ELSE PlainReplace(to_string(fhe_str), to_string(from),
                                       to_string(to)))
    \* I.a the string and "from" are clear, "to" is encrypted
    ELSE IF ~fhe_str.is_encrypted /\ ~from.is_encrypted
    THEN LET sub_strings ==
                 IF replacen
                 THEN PlainSplitN(n_times + 1, to_string(fhe_str), to_string(from))
                 ELSE PlainSplit(to_string(fhe_str), to_string(from))
             encrypted_sub_strings ==
                 [k \in 1..Len(sub_strings) |->
                     [j \in 1..Len(sub_strings[k]) |-> sub_strings[k][j] % CharModulus]]
         IN  from_encrypted(Join(encrypted_sub_strings, to.fhe_chars),
                            to.is_padded, ~to.is_padded)
    \* I.b the string is empty and not padded
    ELSE IF VLen(fhe_str) = 0
    THEN IF replacen /\ n_times = 0 THEN fhe_str
         ELSE IF VLen(from) = 0 THEN to
         ELSE IF ~from.is_padded
         THEN (IF ~from.is_encrypted THEN from_string(<<>>) ELSE empty_encrypted)
         ELSE if_then_else_fhe_string(is_empty(from),
                                      IF to.is_encrypted THEN to
                                      ELSE trivial_encrypt(to, 0),
                                      empty_encrypted)
    \* result_from_empty, found_vec, contains_vec, st and the values derived
    \* from them are each computed once
    ELSE Only({
    \* II. "from" is the empty string with no padding
    IF VLen(from) = 0
    THEN from_encrypted(result_from_empty, to.is_padded \/ fhe_str.is_padded,
                        ~(to.is_padded \/ fhe_str.is_padded))
    ELSE Only({ Only({ Only({
    \* III. "from" is not padded and "to" is no longer than "from"
    IF ~from.is_padded /\ VLen(from) >= VLen(to)
    THEN Only({ Only({
             from_encrypted([k \in 1..VLen(fhe_str) |->
                                IF st.is_pattern_vec[k] THEN pattern_replaced[k]
                                ELSE get_encrypted_values(fhe_str)[k]],
                            fhe_str.is_padded \/ VLen(from) > VLen(to) \/ to.is_padded,
                            VLen(from) = VLen(to) /\ ~to.is_padded)
             : pattern_replaced \in {
                 [k \in 1..VLen(fhe_str) |->
                     LET n_ == k - 1
                         start_index == IF n_ >= VLen(to_fhe_padded)
                                        THEN n_ - VLen(to_fhe_padded) + 1 ELSE 0
                     IN  SumSeq([j \in 1..(n_ - start_index + 1) |->
                                    Bit(At(st.contains_at_index_vec, n_ - (j - 1)))
                                        * to_fhe_padded.fhe_chars[j]]) % CharModulus]}})
             : to_fhe_padded \in {
                 IF to.is_encrypted THEN pad(to, VLen(from) - VLen(to))
                 ELSE trivial_encrypt(to, VLen(from) - VLen(to))}})
    \* IV. "to" does not fit where "from" was: split and concatenate
    ELSE Only({ Only({ Only({
             from_encrypted(IF from.is_padded
                            THEN if_then_else_vec(split_res.is_pattern_empty,
                                                  result_from_empty,
                                                  concatenated_values)
                            ELSE concatenated_values,
                            TRUE, FALSE)
             : concatenated_values \in {
                 get_encrypted_values(concatenate(
                     [k \in 1..(2 * Len(split_res.strings) - 1) |->
                         IF k % 2 = 1 THEN split_res.strings[(k + 1) \div 2]
                         ELSE from_encrypted(to_or_zero[k \div 2], TRUE, TRUE)]))}})
             : to_or_zero \in {
                 [k \in 1..(Len(split_res.strings) - 1) |->
                     [j \in 1..VLen(to) |->
                         (Bit(split_res.number_of_fields > k)
                              * get_encrypted_values(to)[j]) % CharModulus]]}})
             : split_res \in {
                 IF replacen THEN splitn_pattern_empty(n_times + 1, fhe_str, from)
                 ELSE split_pattern_empty(fhe_str, from)}})
        : st \in {
            ReplaceLoop(contains_vec, ServerKey_len(from),
                        RadixModulus(Max(compute_blocks_for_len(Len(contains_vec)),
                                         compute_blocks_for_len(VLen(from)))),
                        replacen, n_times, 0,
                        [pattern_start_index |-> 0, first_one_seen |-> FALSE,
                         pattern_started |-> FALSE, sum_pattern_starts |-> 0,
                         contains_at_index_vec |-> <<>>, is_pattern_vec |-> <<>>])}})
        : contains_vec \in {
            found_vec \o [k \in 1..(VLen(fhe_str) - Len(found_vec)) |-> FALSE]
                      \o <<FALSE>>}})
        : found_vec \in {contains_at_index_vec(fhe_str, from)}})
    : result_from_empty \in {
        IF from.is_padded \/ VLen(from) = 0
        THEN (IF VLen(to) = 0 THEN get_encrypted_values(fhe_str)
              ELSE ResultFromEmptyLoop(fhe_str, to, replacen, n_times, 0))
        ELSE <<>>}})

replace(fhe_str, from, to) == replace_or_replacen(fhe_str, from, to, FALSE, 0)

replacen(fhe_str, from, to, count) ==
    replace_or_replacen(fhe_str, from, to, TRUE, count)

(***************************************************************************)
(* State.                                                                  *)
(***************************************************************************)
VARIABLES
    string,          \* args.string: the clear input string
    pattern,         \* args.pattern: the clear input pattern
    pattern_to,      \* args.pattern_to
    padding_string,  \* args.padding_string
    padding_pattern, \* args.padding_pattern
    padding_to,      \* args.padding_to
    n,               \* args.n
    fhe_string,      \* the FheString built from string
    fhe_pattern,     \* the FheString built from pattern
    fhe_pattern_to,  \* the FheString built from pattern_to
    op,              \* the operation applied last
    result           \* what it returned

vars == <<string, pattern, pattern_to, padding_string, padding_pattern,
          padding_to, n, fhe_string, fhe_pattern, fhe_pattern_to, op, result>>

\* the arguments of the run, and the second pattern that only replace reads
inputs == <<string, pattern, pattern_to, padding_string, padding_pattern,
            padding_to, n, fhe_pattern_to>>

NoResult == [panic |-> FALSE, bool |-> FALSE, index |-> 0,
             strings |-> <<>>, number_of_fields |-> 0]

Returned(r) == [NoResult EXCEPT !.strings = <<r>>]

(***************************************************************************)
(* SpecCodec: from_string, then encrypt or trivial_encrypt, then decrypt.  *)
(***************************************************************************)
InitCodec ==
    /\ string \in Strings
    /\ pattern = <<>>
    /\ padding_string \in 0..MaxPad
    /\ padding_pattern = 0
    /\ n = 0
    /\ fhe_string = from_string(string)
    /\ fhe_pattern = from_string(pattern)
    /\ pattern_to = <<>>
    /\ padding_to = 0
    /\ fhe_pattern_to = from_string(pattern_to)
    /\ op = "from_string"
    /\ result = NoResult

\* no operation of the server has been applied yet
Ready == op \in {"from_string", "encrypt", "trivial_encrypt", "reverse"}

Encrypt ==
    /\ Ready
    /\ ~fhe_string.is_encrypted
    /\ fhe_string' = encrypt(fhe_string, padding_string)
    /\ op' = "encrypt"
    /\ UNCHANGED <<inputs, fhe_pattern, result>>

TrivialEncrypt ==
    /\ Ready
    /\ ~fhe_string.is_encrypted
    /\ fhe_string' = trivial_encrypt(fhe_string, padding_string)
    /\ op' = "trivial_encrypt"
    /\ UNCHANGED <<inputs, fhe_pattern, result>>

Decrypt ==
    /\ Ready
    /\ fhe_string.is_encrypted
    /\ LET d == decrypt(fhe_string)
       IN  result' = IF IsPanic(d) THEN [NoResult EXCEPT !.panic = TRUE]
                     ELSE Returned(d)
    /\ op' = "decrypt"
    /\ UNCHANGED <<inputs, fhe_string, fhe_pattern>>

\* len of the string, clear or encrypted: an encrypted number
HiddenLen ==
    /\ Ready
    /\ op' = "len"
    /\ result' = [NoResult EXCEPT !.index = ServerKey_len(fhe_string)]
    /\ UNCHANGED <<inputs, fhe_string, fhe_pattern>>

NextCodec == Encrypt \/ TrivialEncrypt \/ Decrypt \/ HiddenLen

SpecCodec == InitCodec /\ [][NextCodec]_vars

C20_LenCorrect ==
    op = "len" => (~result.panic /\ result.index = Len(string))

C20_Witness ==
    /\ op = "len"
    /\ fhe_string.is_encrypted
    /\ padding_string > 0
    /\ Len(string) > 1
    /\ VLen(fhe_string) = Len(string) + padding_string
    /\ result.index = Len(string)

(***************************************************************************)
(* The inputs of the two-operand operations: a string and a pattern, each  *)
(* given clear (from_string) or encrypted with its padding.                *)
(***************************************************************************)
InitArgs ==
    /\ string \in Strings
    /\ pattern \in Patterns
    /\ padding_string \in 0..MaxPad
    /\ padding_pattern \in 0..MaxPad
    /\ n \in 0..MaxN
    /\ fhe_string = from_string(string)
    /\ fhe_pattern = from_string(pattern)
    /\ pattern_to = <<>>
    /\ padding_to = 0
    /\ fhe_pattern_to = from_string(pattern_to)
    /\ op = "from_string"
    /\ result = NoResult

EncryptPattern ==
    /\ Ready
    /\ ~fhe_pattern.is_encrypted
    /\ fhe_pattern' = encrypt(fhe_pattern, padding_pattern)
    /\ op' = "encrypt"
    /\ UNCHANGED <<inputs, fhe_string, result>>

\* sub_string of an operand before it is given to the server: the result
\* is flagged is_padded whatever its bytes are
SubStringString ==
    \E index_start \in 0..(MaxLen + MaxPad), index_end \in 0..(MaxLen + MaxPad) :
        /\ Ready
        /\ index_start <= index_end /\ index_end < VLen(fhe_string)
        /\ fhe_string' = sub_string(fhe_string, index_start, index_end)
        /\ op' = "encrypt"
        /\ UNCHANGED <<inputs, fhe_pattern, result>>

SubStringPattern ==
    \E index_start \in 0..(MaxPatLen + MaxPad), index_end \in 0..(MaxPatLen + MaxPad) :
        /\ Ready
        /\ index_start <= index_end /\ index_end < VLen(fhe_pattern)
        /\ fhe_pattern' = sub_string(fhe_pattern, index_start, index_end)
        /\ op' = "encrypt"
        /\ UNCHANGED <<inputs, fhe_string, result>>

\* the hidden content of a reusable value: its bytes before the zero tail
Hidden(fhe_str) == TrimEndZeros(Bytes(fhe_str))

\* the value is the one from_string or encrypt made of the clear input
Direct(fhe_str, s, padding) ==
    fhe_str \in {from_string(s), encrypt(from_string(s), padding)}

\* the step of an operation that returns an encrypted boolean
BoolOp(name, aborts, value) ==
    /\ Ready
    /\ op' = name
    /\ result' = IF aborts THEN [NoResult EXCEPT !.panic = TRUE]
                 ELSE [NoResult EXCEPT !.bool = value]
    /\ UNCHANGED <<inputs, fhe_string, fhe_pattern>>

(***************************************************************************)
(* SpecCmp: eq and lt of the string and the pattern.                       *)
(***************************************************************************)
InitCmp == InitArgs /\ n = 0

Eq == BoolOp("eq", assert_is_reusable_fails(fhe_string, fhe_pattern),
             eq(fhe_string, fhe_pattern))

Lt == BoolOp("lt", assert_is_reusable_fails(fhe_string, fhe_pattern),
             lt(fhe_string, fhe_pattern))

Ne == BoolOp("ne", assert_is_reusable_fails(fhe_string, fhe_pattern),
             ne(fhe_string, fhe_pattern))

Le == BoolOp("le", assert_is_reusable_fails(fhe_string, fhe_pattern),
             le(fhe_string, fhe_pattern))

Gt == BoolOp("gt", assert_is_reusable_fails(fhe_string, fhe_pattern),
             gt(fhe_string, fhe_pattern))

Ge == BoolOp("ge", assert_is_reusable_fails(fhe_string, fhe_pattern),
             ge(fhe_string, fhe_pattern))

NextCmp ==
    \/ Encrypt \/ EncryptPattern \/ SubStringString \/ SubStringPattern
    \/ Eq \/ Lt \/ Ne \/ Le \/ Gt \/ Ge

SpecCmp == InitCmp /\ [][NextCmp]_vars

\* C4: for reusable A and B, clear or encrypted, whatever their visible
\* lengths and paddings, eq(A, B) decrypts to true exactly when the hidden
\* contents of A and B are identical.
C4_EqCorrect ==
    op = "eq" =>
        (~result.panic /\ (result.bool <=> Hidden(fhe_string) = Hidden(fhe_pattern)))

C4_Witness ==
    /\ op = "eq"
    /\ fhe_string.is_encrypted /\ ~fhe_pattern.is_encrypted
    /\ VLen(fhe_string) > VLen(fhe_pattern)
    /\ Len(Hidden(fhe_pattern)) > 1
    /\ result.bool

\* C5: for reusable A and B in each of the four clear / encrypted
\* combinations, lt(A, B) is true exactly when the hidden content of A is
\* strictly smaller than that of B in lexicographic byte order, a proper
\* prefix being smaller than the longer string.
C5_LtCorrect ==
    op = "lt" =>
        (~result.panic /\ (result.bool <=> StrLt(Hidden(fhe_string), Hidden(fhe_pattern))))

(***************************************************************************)
(* SpecSearch: contains, find and rfind of the pattern in the string.      *)
(***************************************************************************)
InitSearch == InitArgs /\ n = 0

Contains == BoolOp("contains", contains_panics(fhe_string, fhe_pattern),
                   contains(fhe_string, fhe_pattern))

\* the step of find / rfind: an encrypted index and an encrypted boolean
IndexOp(name, aborts, pair) ==
    /\ Ready
    /\ op' = name
    /\ result' = IF aborts THEN [NoResult EXCEPT !.panic = TRUE]
                 ELSE [NoResult EXCEPT !.index = pair.index, !.bool = pair.found]
    /\ UNCHANGED <<inputs, fhe_string, fhe_pattern>>

Find == IndexOp("find", contains_panics(fhe_string, fhe_pattern),
                find(fhe_string, fhe_pattern))

RFind == IndexOp("rfind", contains_panics(fhe_string, fhe_pattern),
                 rfind(fhe_string, fhe_pattern))

\* the step of strip_suffix: an FheString and an encrypted boolean
StripOp(name, aborts, pair) ==
    /\ Ready
    /\ op' = name
    /\ result' = IF aborts THEN [NoResult EXCEPT !.panic = TRUE]
                 ELSE [NoResult EXCEPT !.strings = <<pair.string>>,
                                       !.bool = pair.found]
    /\ UNCHANGED <<inputs, fhe_string, fhe_pattern>>

\* the calls of strip_suffix that panic: assert_is_reusable, and ends_with
\* taking the fhe_chars slice of a clear pattern flagged padded
strip_suffix_panics(fhe_str, pat) ==
    \/ assert_is_reusable_fails(fhe_str, pat)
    \/ /\ fhe_str.is_encrypted /\ ~pat.is_encrypted /\ pat.is_padded
       /\ VLen(fhe_str) > 0 /\ VLen(pat) > 0

StripSuffix ==
    StripOp("strip_suffix", strip_suffix_panics(fhe_string, fhe_pattern),
            strip_suffix(fhe_string, fhe_pattern))

\* the calls of strip_prefix_reusable that panic: assert_is_reusable, and
\* starts_with taking the fhe_chars slice of a clear pattern flagged padded
strip_prefix_reusable_panics(fhe_str, pat) ==
    \/ assert_is_reusable_fails(fhe_str, pat)
    \/ /\ fhe_str.is_encrypted /\ ~pat.is_encrypted /\ pat.is_padded
       /\ VLen(fhe_str) > 0 /\ VLen(pat) > 0

StripPrefixReusable ==
    StripOp("strip_prefix_reusable",
            strip_prefix_reusable_panics(fhe_string, fhe_pattern),
            strip_prefix_reusable(fhe_string, fhe_pattern))

NextSearch ==
    \/ Encrypt \/ EncryptPattern \/ SubStringString \/ SubStringPattern
    \/ Contains \/ Find \/ RFind \/ StripSuffix \/ StripPrefixReusable

SpecSearch == InitSearch /\ [][NextSearch]_vars

\* C3: contains(encrypt(s, ps), encrypt(t, pt)) decrypts to true exactly when
\* t occurs as a contiguous substring of s (always when t is empty), for all
\* paddings, and the same boolean is returned when either operand is clear.
C3_ContainsCorrect ==
    (/\ op = "contains"
     /\ Direct(fhe_string, string, padding_string)
     /\ Direct(fhe_pattern, pattern, padding_pattern))
        => (~result.panic /\ (result.bool <=> PlainContains(string, pattern)))

C3_Witness ==
    /\ op = "contains"
    /\ fhe_string.is_encrypted /\ fhe_pattern.is_encrypted
    /\ padding_string > 0 /\ padding_pattern > 0
    /\ Len(pattern) > 1
    /\ PlainOccurrences(string, pattern) = {1}
    /\ result.bool

\* C6: find(S, P) and rfind(S, P) return found = true exactly when the hidden
\* content of P occurs in that of S; when found, the index is the smallest
\* (find) or largest (rfind) start of an occurrence; for an empty P, padded
\* or not, that is 0 for find and the hidden length of S for rfind.
C6_FindCorrect ==
    LET s == Hidden(fhe_string)
        p == Hidden(fhe_pattern)
    IN  /\ op \in {"find", "rfind"} =>
               (~result.panic /\ (result.bool <=> PlainContains(s, p)))
        /\ (op = "find" /\ result.bool) => result.index = PlainFind(s, p)
        /\ (op = "rfind" /\ result.bool) => result.index = PlainRFind(s, p)

C6_Witness ==
    /\ op = "find"
    /\ fhe_string = encrypt(from_string(<<44, 97>>), 0)
    /\ fhe_pattern = sub_string(encrypt(from_string(<<97, 44>>), 0), 0, 1)
    /\ result.bool /\ result.index = 1

(***************************************************************************)
(* SpecSplit: split, splitn and split_terminator of the string by the      *)
(* pattern, each operand clear or encrypted with its padding.              *)
(***************************************************************************)
InitSplit == InitArgs

\* the step of a split: a vector of fields and an encrypted number of fields
SplitOp(name, aborts, out) ==
    /\ Ready
    /\ op' = name
    /\ result' = IF aborts THEN [NoResult EXCEPT !.panic = TRUE]
                 ELSE [NoResult EXCEPT !.strings = out.strings,
                                       !.number_of_fields = out.number_of_fields]
    /\ UNCHANGED <<inputs, fhe_string, fhe_pattern>>

split_panics(fhe_str, pat) ==
    assert_is_reusable_fails(fhe_str, pat) \/ split_general_panics(fhe_str, pat)

Split == SplitOp("split", split_panics(fhe_string, fhe_pattern),
                 split(fhe_string, fhe_pattern))

SplitN == SplitOp("splitn",
                  \/ ~fhe_string.is_reusable
                  \/ n > 1 /\ split_panics(fhe_string, fhe_pattern),
                  splitn(n, fhe_string, fhe_pattern))

SplitTerminator ==
    SplitOp("split_terminator", split_panics(fhe_string, fhe_pattern),
            split_terminator(fhe_string, fhe_pattern))

SplitInclusive ==
    SplitOp("split_inclusive", split_panics(fhe_string, fhe_pattern),
            split_inclusive(fhe_string, fhe_pattern))

SplitReusable ==
    SplitOp("split_reusable",
            \/ split_panics(fhe_string, fhe_pattern)
            \/ make_split_reusable_panics(split(fhe_string, fhe_pattern)),
            split_reusable(fhe_string, fhe_pattern))

RSplitReusable ==
    SplitOp("rsplit_reusable",
            \/ rsplit_panics(fhe_string, fhe_pattern)
            \/ make_split_reusable_panics(rsplit(fhe_string, fhe_pattern)),
            rsplit_reusable(fhe_string, fhe_pattern))

NextSplit ==
    \/ Encrypt \/ EncryptPattern
    \/ Split \/ SplitN \/ SplitTerminator \/ SplitInclusive
    \/ SplitReusable \/ RSplitReusable

SpecSplit == InitSplit /\ [][NextSplit]_vars

\* what the client reads in a returned field
FieldText(field) ==
    IF field.is_encrypted THEN decrypt(field) ELSE field

\* the first number_of_fields returned fields, as the client reads them
ReportedFields ==
    [k \in 1..Min(result.number_of_fields, Len(result.strings)) |->
        LET text == FieldText(result.strings[k])
        IN  IF IsPanic(text) THEN PANIC ELSE text.chars]

\* the client can decrypt each of them
FieldsReadable ==
    \A k \in 1..Min(result.number_of_fields, Len(result.strings)) :
        ~IsPanic(FieldText(result.strings[k]))

\* the result holds exactly the fields expected
Reports(expected) ==
    /\ ~result.panic
    /\ result.number_of_fields = Len(expected)
    /\ FieldsReadable
    /\ ReportedFields = expected

\* no two occurrences of t in s overlap
NonOverlapping(s, t) ==
    \A i \in PlainOccurrences(s, t), j \in PlainOccurrences(s, t) :
        i < j => i + Len(t) <= j

\* C7: for non-empty s and t and all paddings, split(encrypt(s, ps),
\* encrypt(t, pt)) reports the number k of fields of the plaintext split of s
\* by t, and its first k fields decrypt, in order, to those k fields.
C7_SplitCorrect ==
    (/\ op = "split"
     /\ fhe_string.is_encrypted /\ fhe_pattern.is_encrypted
     /\ Len(string) > 0 /\ Len(pattern) > 0)
        => Reports(PlainSplit(string, pattern))

C7_Witness ==
    /\ op = "split"
    /\ fhe_string.is_encrypted /\ fhe_pattern.is_encrypted
    /\ padding_string > 0 /\ padding_pattern > 0
    /\ string = <<97, 44, 97>> /\ pattern = <<44>>
    /\ result.number_of_fields = 2
    /\ ReportedFields = << <<97>>, <<97>> >>

\* C8: for any s (the empty string encrypted with any padding included) and
\* any non-empty p whose occurrences in s do not overlap, the first
\* number_of_fields decrypted fields of split(s, p) joined with p give s.
C8_SplitJoin ==
    (/\ op = "split"
     /\ Len(pattern) > 0
     /\ NonOverlapping(string, pattern))
        => /\ ~result.panic
           /\ result.number_of_fields <= Len(result.strings)
           /\ FieldsReadable
           /\ Join(ReportedFields, pattern) = string

\* C9: for n >= 0, non-empty s and p and any paddings, splitn(n, s, p)
\* reports at most n fields, and they are the fields of the plaintext splitn:
\* the successive split fields, the n-th being the unsplit remainder.
C9_SplitNCorrect ==
    (/\ op = "splitn"
     /\ Len(string) > 0 /\ Len(pattern) > 0)
        => /\ result.number_of_fields <= n
           /\ Reports(PlainSplitN(n, string, pattern))

C9_Witness ==
    /\ op = "splitn"
    /\ fhe_string.is_encrypted /\ fhe_pattern.is_encrypted
    /\ padding_string > 0 /\ padding_pattern > 0
    /\ n = 2
    /\ string = <<97, 44, 44>> /\ pattern = <<44>>
    /\ ReportedFields = << <<97>>, <<44>> >>

\* C10: for non-empty s and p and any paddings, split_terminator(s, p)
\* reports the plaintext split_terminator field count; it is 1 whenever p
\* does not occur in s.
C10_SplitTerminatorCount ==
    (/\ op = "split_terminator"
     /\ Len(string) > 0 /\ Len(pattern) > 0)
        => /\ ~result.panic
           /\ result.number_of_fields = Len(PlainSplitTerminator(string, pattern))
           /\ ~PlainContains(string, pattern) => result.number_of_fields = 1

\* C11: for non-empty s and p and any paddings, split_inclusive(s, p) reports
\* the number of fields of the plaintext split_inclusive, where a separator
\* that ends s closes the last field and opens no further empty field.
C11_SplitInclusiveCount ==
    (/\ op = "split_inclusive"
     /\ Len(string) > 0 /\ Len(pattern) > 0)
        => /\ ~result.panic
           /\ result.number_of_fields = Len(PlainSplitInclusive(string, pattern))

\* the fields of a split by the empty pattern: "", each character, ""
EmptyPatternFields(s) ==
    << <<>> >> \o [k \in 1..Len(s) |-> <<s[k]>>] \o << <<>> >>

\* C13: when the pattern is empty (visible length 0, or padded with hidden
\* length 0) and S is encrypted with hidden length h under any padding,
\* split(S, P) reports h + 2 fields that decrypt to "", each character of s
\* in order, then "".
C13_SplitEmptyPattern ==
    (/\ op = "split"
     /\ fhe_string.is_encrypted
     /\ pattern = <<>>)
        => /\ result.number_of_fields = Len(string) + 2
           /\ Reports(EmptyPatternFields(string))

(***************************************************************************)
(* SpecReplace: replace and replacen of the pattern by pattern_to in the   *)
(* string, each of the three clear or encrypted with its padding.          *)
(***************************************************************************)
InitReplace ==
    /\ string \in Strings
    /\ pattern \in Patterns
    /\ pattern_to \in Patterns
    /\ padding_string \in 0..MaxPadReplace
    /\ padding_pattern \in 0..MaxPadReplace
    /\ padding_to \in 0..MaxPadReplace
    /\ n \in 0..MaxCount
    /\ fhe_string = from_string(string)
    /\ fhe_pattern = from_string(pattern)
    /\ fhe_pattern_to = from_string(pattern_to)
    /\ op = "from_string"
    /\ result = NoResult

EncryptTo ==
    /\ Ready
    /\ ~fhe_pattern_to.is_encrypted
    /\ fhe_pattern_to' = encrypt(fhe_pattern_to, padding_to)
    /\ op' = "encrypt"
    /\ UNCHANGED <<string, pattern, pattern_to, padding_string, padding_pattern,
                   padding_to, n, fhe_string, fhe_pattern, result>>

\* the step of an operation that returns an FheString
StringOp(name, aborts, value) ==
    /\ Ready
    /\ op' = name
    /\ result' = IF aborts \/ IsPanic(value) THEN [NoResult EXCEPT !.panic = TRUE]
                 ELSE Returned(value)
    /\ UNCHANGED <<inputs, fhe_string, fhe_pattern>>

Replace ==
    StringOp("replace", replace_panics(fhe_string, fhe_pattern, fhe_pattern_to),
             replace(fhe_string, fhe_pattern, fhe_pattern_to))

ReplaceN ==
    StringOp("replacen", replace_panics(fhe_string, fhe_pattern, fhe_pattern_to),
             replacen(fhe_string, fhe_pattern, fhe_pattern_to, n))

NextReplace ==
    Encrypt \/ EncryptPattern \/ EncryptTo \/ Replace \/ ReplaceN

SpecReplace == InitReplace /\ [][NextReplace]_vars

\* the returned string, as the client reads it
ResultText ==
    IF result.panic \/ Len(result.strings) = 0 THEN PANIC
    ELSE FieldText(result.strings[1])

\* the operation returned a string that reads as expected
Decrypts(expected) ==
    /\ ~result.panic
    /\ ~IsPanic(ResultText)
    /\ ResultText.chars = expected

\* C14: for every s and non-empty p, any paddings and any clear / encrypted
\* mix of the three arguments, replace(s, p, p) decrypts to s; and
\* replace(s, "", "") decrypts to s.
C14_ReplaceSame ==
    (/\ op = "replace"
     /\ pattern_to = pattern)
        => Decrypts(string)

\* C15: for n >= 0, every s and every non-empty f, replacen(s, f, t, n)
\* decrypts to s with the first min(n, number of non-overlapping occurrences)
\* occurrences of f replaced by t, for t shorter, equal or longer than f and
\* all paddings.
C15_ReplaceNCorrect ==
    (/\ op = "replacen"
     /\ Len(pattern) > 0)
        => Decrypts(PlainReplaceN(string, pattern, pattern_to, n))

(***************************************************************************)
(* SpecWhitespace: the operations of one string that look at whitespace,   *)
(* the string clear or encrypted with its padding.                         *)
(***************************************************************************)
\* the characters of the inputs: \r, ' ' and 'a'
WsAlphabet == {13, 32, 97}

WsStrings ==
    UNION {[1..k -> WsAlphabet] : k \in 0..MaxLen}

InitWhitespace ==
    /\ string \in WsStrings
    /\ pattern = <<>>
    /\ padding_string \in 0..MaxPad
    /\ padding_pattern = 0
    /\ n = 0
    /\ fhe_string = from_string(string)
    /\ fhe_pattern = from_string(pattern)
    /\ pattern_to = <<>>
    /\ padding_to = 0
    /\ fhe_pattern_to = from_string(pattern_to)
    /\ op = "from_string"
    /\ result = NoResult

SplitAsciiWhitespace ==
    SplitOp("split_ascii_whitespace", ~fhe_string.is_reusable,
            split_ascii_whitespace(fhe_string))

TrimCall == StringOp("trim", FALSE, trim(fhe_string))

TrimStartCall == StringOp("trim_start", FALSE, trim_start(fhe_string))

TrimEndCall == StringOp("trim_end", FALSE, trim_end(fhe_string))

NextWhitespace ==
    Encrypt \/ SplitAsciiWhitespace \/ TrimCall \/ TrimStartCall \/ TrimEndCall

SpecWhitespace == InitWhitespace /\ [][NextWhitespace]_vars

\* the whitespace of the encrypted operations: ' ', \t and \n
SpaceTabNewline == {32, 9, 10}

\* C12: for every s and padding p >= 0, split_ascii_whitespace(encrypt(s, p))
\* reports the number of maximal runs of non-whitespace characters of s, 0
\* for a string of whitespace only.
C12_WhitespaceCount ==
    (op = "split_ascii_whitespace" /\ fhe_string.is_encrypted)
        => /\ ~result.panic
           /\ result.number_of_fields
                  = Len(PlainRuns(string, SpaceTabNewline, 1, <<>>))

\* C19: every field returned by a _reusable split variant has
\* is_reusable = true, the field at index 0 included.
C19_ReusableFields ==
    (op \in {"split_reusable", "rsplit_reusable"} /\ ~result.panic)
        => \A k \in DOMAIN result.strings : result.strings[k].is_reusable

\* C17: for reusable S and P with any paddings, strip_suffix(S, P) returns
\* found = true and a string decrypting to s without its trailing p when the
\* hidden content of S ends with the hidden content of P, and found = false
\* and a string decrypting to s otherwise.
C17_StripSuffixCorrect ==
    op = "strip_suffix" =>
        LET expected == PlainStripSuffix(Hidden(fhe_string), Hidden(fhe_pattern))
        IN  /\ Decrypts(expected.string)
            /\ result.bool = expected.found

C17_Witness ==
    /\ op = "strip_suffix"
    /\ fhe_string = from_string(<<44>>)
    /\ fhe_pattern = sub_string(encrypt(from_string(<<44, 44>>), 0), 0, 1)
    /\ result.bool
    /\ Decrypts(<<44>>)

\* the clear path of the operation applied last
ClearPath ==
    IF op = "trim" THEN trim(from_string(string))
    ELSE IF op = "trim_start" THEN trim_start(from_string(string))
    ELSE trim_end(from_string(string))

\* C16: for every s over bytes 1..=127 and padding p >= 0, trim, trim_start
\* and trim_end of encrypt(s, p) decrypt to the string the same operation
\* returns for the clear FheString of s.
C16_TrimAsClear ==
    (/\ op \in {"trim", "trim_start", "trim_end"}
     /\ fhe_string.is_encrypted)
        => Decrypts(ClearPath.chars)

(***************************************************************************)
(* SpecReusable: make_reusable of an encrypted string that is not          *)
(* reusable, its bytes (zeros anywhere) given by from_encrypted.           *)
(***************************************************************************)
RECURSIVE BytesOfLen(_)
BytesOfLen(k) ==
    IF k = 0 THEN {<<>>}
    ELSE {Append(w, c) : w \in BytesOfLen(k - 1), c \in Alphabet \cup {0}}

InitReusable ==
    /\ string \in UNION {BytesOfLen(k) : k \in 1..MaxReusableLen}
    /\ pattern = <<>>
    /\ pattern_to = <<>>
    /\ padding_string = 0
    /\ padding_pattern = 0
    /\ padding_to = 0
    /\ n = 0
    /\ fhe_string = from_encrypted(string, TRUE, FALSE)
    /\ fhe_pattern = from_string(pattern)
    /\ fhe_pattern_to = from_string(pattern_to)
    /\ op = "from_encrypted"
    /\ result = NoResult

MakeReusable ==
    /\ op = "from_encrypted"
    /\ op' = "make_reusable"
    /\ result' = LET value == make_reusable(fhe_string)
                 IN  IF IsPanic(value) THEN [NoResult EXCEPT !.panic = TRUE]
                     ELSE Returned(value)
    /\ UNCHANGED <<inputs, fhe_string, fhe_pattern>>

NextReusable == MakeReusable

SpecReusable == InitReusable /\ [][NextReusable]_vars

\* C18: for every encrypted non-reusable S of visible length L >= 1 (L >= 4
\* and four or more non-zero bytes included), make_reusable(S) has visible
\* length L, its first k bytes are the k non-zero bytes of S in their order
\* and its other L - k bytes are zero.
C18_MakeReusableTidy ==
    op = "make_reusable" =>
        /\ ~result.panic
        /\ LET non_zero == RemoveZeros(fhe_string.fhe_chars)
           IN  result.strings[1].fhe_chars =
                   non_zero \o Zeros(VLen(fhe_string) - Len(non_zero))

(***************************************************************************)
(* Spec: the life cycle of an FheString.  The client builds two values     *)
(* with from_string and encrypts them; then any sequence of the public     *)
(* operations that return an FheString is applied to the first.  A panic   *)
(* ends the run.                                                           *)
(***************************************************************************)
\* the characters of the life-cycle inputs: ' ' and 'a'
LifeAlphabet == {32, 97}

LifeStrings ==
    {<<>>} \cup {<<c>> : c \in LifeAlphabet}
           \cup {<<c, d>> : c \in LifeAlphabet, d \in LifeAlphabet}

Init ==
    /\ string \in LifeStrings
    /\ pattern = <<97>>
    /\ padding_string \in 0..MaxPad
    /\ padding_pattern \in 0..1
    /\ n = 0
    /\ fhe_string = from_string(string)
    /\ fhe_pattern = from_string(pattern)
    /\ pattern_to = <<>>
    /\ padding_to = 0
    /\ fhe_pattern_to = from_string(pattern_to)
    /\ op = "from_string"
    /\ result = NoResult

\* the step of one operation whose outcome is r
Apply(name, r) ==
    /\ ~result.panic
    /\ op' = name
    /\ IF IsPanic(r)
       THEN /\ result' = [NoResult EXCEPT !.panic = TRUE]
            /\ UNCHANGED fhe_string
       ELSE /\ result' = Returned(r)
            /\ fhe_string' = r
    /\ UNCHANGED <<inputs, fhe_pattern>>

EncryptBoth ==
    /\ op = "from_string"
    /\ fhe_string' = encrypt(fhe_string, padding_string)
    /\ fhe_pattern' = encrypt(fhe_pattern, padding_pattern)
    /\ op' = "encrypt"
    /\ UNCHANGED <<inputs, result>>

SubString ==
    \E index_start \in 0..MaxVisible, index_end \in 0..MaxVisible :
        /\ index_start <= index_end
        /\ Apply("sub_string", sub_string(fhe_string, index_start, index_end))

Reverse == Apply("reverse", reverse(fhe_string))

Pad ==
    \E padding \in 0..MaxPad :
        /\ VLen(fhe_string) + padding <= MaxVisible
        /\ Apply("pad", pad(fhe_string, padding))

Repeat ==
    \E n_ \in 0..MaxN :
        /\ VLen(fhe_string) * n_ <= MaxVisible
        /\ Apply("repeat", repeat(fhe_string, n_))

Concatenate ==
    /\ VLen(fhe_string) + VLen(fhe_pattern) <= MaxVisible
    /\ \/ Apply("concatenate", concatenate(<<fhe_string, fhe_pattern>>))
       \/ Apply("concatenate", concatenate(<<fhe_pattern, fhe_string>>))

TrimStart == Apply("trim_start", trim_start(fhe_string))

TrimStartReusable == Apply("trim_start_reusable", trim_start_reusable(fhe_string))

TrimEnd == Apply("trim_end", trim_end(fhe_string))

Next ==
    \/ EncryptBoth
    \/ SubString
    \/ Reverse
    \/ Pad
    \/ Repeat
    \/ Concatenate
    \/ TrimStart
    \/ TrimStartReusable
    \/ TrimEnd

Spec == Init /\ [][Next]_vars

\* the zero bytes of v are all in its tail
ZerosOnlyInTail(v) ==
    \A i \in DOMAIN v : \A j \in DOMAIN v : (i < j /\ v[i] = 0) => v[j] = 0

\* C2: whenever an FheString has is_reusable = true, its zero bytes are all in
\* its tail (after every non-zero byte), after any sequence of the public
\* operations.
C2_ReusableZerosInTail ==
    (fhe_string.is_encrypted /\ fhe_string.is_reusable)
        => ZerosOnlyInTail(fhe_string.fhe_chars)

\* the step is a call of FheString::reverse on fhe_string
ReverseStep == op' = "reverse" /\ ~result'.panic

\* the bytes of the value after the step are those before it in reverse order
ReversedOrder ==
    /\ fhe_string'.chars = Rev(fhe_string.chars)
    /\ fhe_string'.fhe_chars = Rev(fhe_string.fhe_chars)

\* C30: reverse reverses the order of the characters, negates is_reusable
\* when the value is padded and leaves it unchanged when the value is not
\* padded.
C30_ReverseToggles ==
    [][ReverseStep =>
          /\ ReversedOrder
          /\ fhe_string'.is_reusable =
                 (IF fhe_string.is_padded THEN ~fhe_string.is_reusable
                  ELSE fhe_string.is_reusable)]_vars

\* C30 as amended: reverse reverses the order of the characters and sets
\* is_reusable to the negation of is_padded, whatever is_reusable was: a
\* padded value is not reusable after it, an unpadded value is; is_padded and
\* is_encrypted are unchanged.
C30_ReverseSetsNotPadded ==
    [][ReverseStep =>
          /\ ReversedOrder
          /\ fhe_string'.is_reusable = ~fhe_string.is_padded
          /\ fhe_string'.is_padded = fhe_string.is_padded
          /\ fhe_string'.is_encrypted = fhe_string.is_encrypted]_vars

\* a padded value that was reversed twice: its bytes are back in order and
\* it is not reusable
C30_Witness ==
    /\ op = "reverse"
    /\ ~result.panic
    /\ fhe_string.is_padded
    /\ ~fhe_string.is_reusable
    /\ fhe_string.fhe_chars = <<97, 0>>

(***************************************************************************)
(* SpecFromString: from_string on any String.  A char is a Unicode scalar  *)
(* value; the inputs take their characters among NUL, the ends of the      *)
(* ASCII range, the first values past it, and values whose low byte is     *)
(* zero or ASCII.                                                          *)
(***************************************************************************)
CharCodes == {0, 1, 44, 127, 128, 255, 256, 321}

RECURSIVE CharsOfLen(_)
CharsOfLen(k) ==
    IF k = 0 THEN {<<>>}
    ELSE {Append(w, c) : w \in CharsOfLen(k - 1), c \in CharCodes}

InitFromString ==
    /\ string \in UNION {CharsOfLen(j) : j \in 0..MaxLen}
    /\ pattern = <<>>
    /\ pattern_to = <<>>
    /\ padding_string = 0
    /\ padding_pattern = 0
    /\ padding_to = 0
    /\ n = 0
    /\ fhe_string = from_string(<<>>)
    /\ fhe_pattern = from_string(<<>>)
    /\ fhe_pattern_to = from_string(<<>>)
    /\ op = "args"
    /\ result = NoResult

FromString ==
    /\ op = "args"
    /\ op' = "from_string"
    /\ IF IsPanic(from_string(string))
       THEN /\ result' = [NoResult EXCEPT !.panic = TRUE]
            /\ UNCHANGED fhe_string
       ELSE /\ result' = Returned(from_string(string))
            /\ fhe_string' = from_string(string)
    /\ UNCHANGED <<inputs, fhe_pattern>>

NextFromString == FromString

SpecFromString == InitFromString /\ [][NextFromString]_vars

\* C26: from_string aborts if and only if its input contains a character
\* that is the zero byte or lies outside 1..=127; otherwise it returns a
\* clear, unpadded, reusable value whose bytes are all in 1..=127.
C26_FromStringAborts ==
    op = "from_string" =>
        /\ result.panic <=> (\E k \in DOMAIN string : string[k] \notin 1..127)
        /\ ~result.panic =>
               /\ ~fhe_string.is_encrypted
               /\ ~fhe_string.is_padded
               /\ fhe_string.is_reusable
               /\ fhe_string.chars = string
               /\ fhe_string.fhe_chars = <<>>
               /\ \A k \in DOMAIN fhe_string.chars : fhe_string.chars[k] \in 1..127

\* from_string has aborted on a string whose only bad character is NUL
C26_Witness ==
    /\ op = "from_string"
    /\ result.panic
    /\ string = <<44, 0>>

\* C23: for all pairs of reusable inputs a and b, ne(a, b) is the negation of
\* eq(a, b), le(a, b) is the negation of lt(b, a), ge(a, b) is the negation
\* of lt(a, b), and gt(a, b) equals lt(b, a).
C23_DerivedComparisons ==
    (op \in {"ne", "le", "ge", "gt"} /\ fhe_string.is_reusable /\ fhe_pattern.is_reusable)
        => /\ ~result.panic
           /\ op = "ne" => (result.bool <=> ~eq(fhe_string, fhe_pattern))
           /\ op = "le" => (result.bool <=> ~lt(fhe_pattern, fhe_string))
           /\ op = "ge" => (result.bool <=> ~lt(fhe_string, fhe_pattern))
           /\ op = "gt" => (result.bool <=> lt(fhe_pattern, fhe_string))

\* le of "," and "a", both encrypted with padding, has returned true
C23_Witness ==
    /\ op = "le"
    /\ fhe_string = encrypt(from_string(<<44>>), 1)
    /\ fhe_pattern = encrypt(from_string(<<97>>), 2)
    /\ result.bool
    /\ ~result.panic

\* C22: every clear FheString obtainable through the public API, after any
\* sequence of calls, has is_reusable = true and is_padded = false.
C22_ClearReusableUnpadded ==
    (~result.panic /\ ~fhe_string.is_encrypted)
        => (fhe_string.is_reusable /\ ~fhe_string.is_padded)

\* C21: every encrypted FheString returned by a public operation with
\* is_padded = false contains no zero byte at any position.
C21_UnpaddedNoZero ==
    (~result.panic /\ fhe_string.is_encrypted /\ ~fhe_string.is_padded)
        => \A k \in DOMAIN fhe_string.fhe_chars : fhe_string.fhe_chars[k] /= 0

\* the bytes of pat at offsets from_ .. VLen(pat) - 1 are all zero
TailIsZero(pat, from_) ==
    \A k \in from_..(VLen(pat) - 1) : At(Bytes(pat), k) = 0

\* C27: for a reusable pattern P flagged is_padded (also when its last byte
\* is not zero) of visible length N and a string S of visible length M, at
\* every index i with i + N > M the match bit match[i] is true only if every
\* byte of P at offsets M - i .. N - 1 is zero.
C27_OverrunTailZero ==
    (/\ op \in {"contains", "find", "rfind"}
     /\ ~result.panic
     /\ fhe_pattern.is_padded
     /\ ~contains_trivially(fhe_string, fhe_pattern, 0).some)
        => \A match \in {contains_at_index_vec(fhe_string, fhe_pattern)} :
               \A i \in 0..(VLen(fhe_string) - 1) :
                   (i + VLen(fhe_pattern) > VLen(fhe_string) /\ At(match, i))
                       => TailIsZero(fhe_pattern, VLen(fhe_string) - i)

\* C28: for all reusable S and P, strip_prefix_reusable(S, P) decrypts to s
\* with the prefix p removed when s starts with p and to s unchanged
\* otherwise, also when P is flagged is_padded although its hidden length
\* equals its visible length.
C28_StripPrefixReusableCorrect ==
    op = "strip_prefix_reusable" =>
        LET expected == PlainStripPrefix(Hidden(fhe_string), Hidden(fhe_pattern))
        IN  /\ Decrypts(expected.string)
            /\ result.bool <=> expected.found

\* the operations of SpecSplit that return fields and their number
SplitVariants ==
    {"split", "splitn", "split_terminator", "split_inclusive", "split_reusable",
     "rsplit_reusable"}

\* C29: for every split variant and all inputs, the decrypted
\* number_of_fields never exceeds the length of the returned vector of
\* fields.
C29_FieldsWithinVector ==
    (op \in SplitVariants /\ ~result.panic)
        => result.number_of_fields <= Len(result.strings)


(***************************************************************************)
(* SpecAssert: the entry points of the server called with operands the     *)
(* client has encrypted and possibly reversed, so that an operand may be   *)
(* flagged not reusable when the call is made.                             *)
(***************************************************************************)
\* the longest string and pattern of SpecAssert
MaxAssertLen == 1

InitAssert ==
    /\ InitArgs
    /\ Len(string) <= MaxAssertLen
    /\ Len(pattern) <= MaxAssertLen

\* FheString::reverse of the string before it is given to the server
ReverseString ==
    /\ Ready
    /\ fhe_string' = reverse(fhe_string)
    /\ op' = "reverse"
    /\ UNCHANGED <<inputs, fhe_pattern, result>>

\* FheString::reverse of the pattern before it is given to the server
ReversePattern ==
    /\ Ready
    /\ fhe_pattern' = reverse(fhe_pattern)
    /\ op' = "reverse"
    /\ UNCHANGED <<inputs, fhe_string, result>>

NextAssert ==
    \/ Encrypt \/ EncryptPattern \/ ReverseString \/ ReversePattern
    \/ Eq \/ Ne \/ Lt \/ Le \/ Gt \/ Ge
    \/ Contains \/ Find \/ RFind \/ StripSuffix \/ StripPrefixReusable
    \/ TrimCall \/ TrimStartCall \/ TrimEndCall \/ SplitAsciiWhitespace
    \/ Split \/ SplitN \/ SplitTerminator \/ SplitInclusive
    \/ SplitReusable \/ RSplitReusable
    \/ Replace \/ ReplaceN

SpecAssert == InitAssert /\ [][NextAssert]_vars

\* the entry points of SpecAssert that take the string only
OneOperand == {"trim", "trim_start", "trim_end", "split_ascii_whitespace"}

\* the entry points of SpecAssert that take the string and the pattern
TwoOperands ==
    {"eq", "ne", "lt", "le", "gt", "ge", "contains", "find", "rfind",
     "strip_suffix", "strip_prefix_reusable", "split", "splitn",
     "split_terminator", "split_inclusive", "split_reusable", "rsplit_reusable"}

\* the entry points of SpecAssert that take the string and two patterns
ThreeOperands == {"replace", "replacen"}

\* an FheString argument of the call that was made is not reusable
NonReusableArgument ==
    \/ op \in OneOperand \cup TwoOperands \cup ThreeOperands
       /\ ~fhe_string.is_reusable
    \/ op \in TwoOperands \cup ThreeOperands /\ ~fhe_pattern.is_reusable
    \/ op \in ThreeOperands /\ ~fhe_pattern_to.is_reusable

\* C25: every comparison, search, trim, strip, split and replace entry point
\* panics, before it returns any result, whenever one of its FheString
\* arguments has is_reusable = false.
C25_NonReusablePanics ==
    NonReusableArgument => result.panic


(***************************************************************************)
(* SpecOblivious: every entry point of the server called with operands     *)
(* that are clear or encrypted with their padding; the shape of what a     *)
(* call returns is compared with the shape the same call returns for       *)
(* every other content of the same visible lengths and flags.              *)
(***************************************************************************)
\* the longest string of SpecOblivious
MaxObliviousLen == 2

\* the longest pattern of SpecOblivious
MaxObliviousPatLen == 1

\* the replacements of SpecOblivious: "" and "a"
ObliviousReplacements == {<<>>, <<97>>}

\* the largest padding of SpecOblivious
MaxObliviousPad == 1

\* the largest n of SpecOblivious
MaxObliviousN == 2

InitOblivious ==
    /\ string \in StringsUpTo(MaxObliviousLen)
    /\ pattern \in StringsUpTo(MaxObliviousPatLen)
    /\ pattern_to \in ObliviousReplacements
    /\ padding_string \in 0..MaxObliviousPad
    /\ padding_pattern \in 0..MaxObliviousPad
    /\ padding_to \in 0..MaxObliviousPad
    /\ n \in 0..MaxObliviousN
    /\ fhe_string = from_string(string)
    /\ fhe_pattern = from_string(pattern)
    /\ fhe_pattern_to = from_string(pattern_to)
    /\ op = "from_string"
    /\ result = NoResult

NextOblivious ==
    \/ Encrypt \/ EncryptPattern \/ EncryptTo
    \/ Eq \/ Ne \/ Lt \/ Le \/ Gt \/ Ge
    \/ Contains \/ Find \/ RFind \/ StripSuffix \/ StripPrefixReusable
    \/ TrimCall \/ TrimStartCall \/ TrimEndCall \/ SplitAsciiWhitespace
    \/ Split \/ SplitN \/ SplitTerminator \/ SplitInclusive
    \/ SplitReusable \/ RSplitReusable
    \/ Replace \/ ReplaceN

SpecOblivious == InitOblivious /\ [][NextOblivious]_vars

\* what a call gives back: a panic, or the FheStrings it returns (the
\* encrypted booleans and numbers it returns with them have a fixed shape)
Gives(aborts, strings) ==
    IF aborts THEN [panic |-> TRUE, strings |-> <<>>]
    ELSE [panic |-> FALSE, strings |-> strings]

GivesString(value) ==
    IF IsPanic(value) THEN Gives(TRUE, <<>>) ELSE Gives(FALSE, <<value>>)

\* the call named name on the string s, the pattern p, the replacement t
\* and the clear number n_
Outcome(name, s, p, t, n_) ==
    CASE name \in {"eq", "ne", "lt", "le", "gt", "ge"} ->
            Gives(assert_is_reusable_fails(s, p), <<>>)
      [] name \in {"contains", "find", "rfind"} ->
            Gives(contains_panics(s, p), <<>>)
      [] name = "strip_suffix" ->
            Gives(strip_suffix_panics(s, p), <<strip_suffix(s, p).string>>)
      [] name = "strip_prefix_reusable" ->
            Gives(strip_prefix_reusable_panics(s, p),
                  <<strip_prefix_reusable(s, p).string>>)
      [] name = "trim" -> GivesString(trim(s))
      [] name = "trim_start" -> GivesString(trim_start(s))
      [] name = "trim_end" -> GivesString(trim_end(s))
      [] name = "split_ascii_whitespace" ->
            Gives(~s.is_reusable, split_ascii_whitespace(s).strings)
      [] name = "split" -> Gives(split_panics(s, p), split(s, p).strings)
      [] name = "splitn" ->
            Gives(~s.is_reusable \/ (n_ > 1 /\ split_panics(s, p)),
                  splitn(n_, s, p).strings)
      [] name = "split_terminator" ->
            Gives(split_panics(s, p), split_terminator(s, p).strings)
      [] name = "split_inclusive" ->
            Gives(split_panics(s, p), split_inclusive(s, p).strings)
      [] name = "split_reusable" ->
            Gives(split_panics(s, p) \/ make_split_reusable_panics(split(s, p)),
                  split_reusable(s, p).strings)
      [] name = "rsplit_reusable" ->
            Gives(rsplit_panics(s, p) \/ make_split_reusable_panics(rsplit(s, p)),
                  rsplit_reusable(s, p).strings)
      [] name = "replace" ->
            IF replace_panics(s, p, t) THEN Gives(TRUE, <<>>)
            ELSE GivesString(replace(s, p, t))
      [] name = "replacen" ->
            IF replace_panics(s, p, t) THEN Gives(TRUE, <<>>)
            ELSE GivesString(replacen(s, p, t, n_))

\* what the server and an observer of the channel see of a call's outcome:
\* whether it panicked, how many FheStrings came back, and of each its
\* visible length and its flags
Shape(given) ==
    [panic |-> given.panic,
     fields |-> [k \in 1..Len(given.strings) |->
                    [len |-> VLen(given.strings[k]),
                     is_encrypted |-> given.strings[k].is_encrypted,
                     is_padded |-> given.strings[k].is_padded,
                     is_reusable |-> given.strings[k].is_reusable]]]

\* the encrypted values of the visible length and flags of fhe_str
SameShape(fhe_str) ==
    {alt \in {encrypt(from_string(s), padding) :
                 s \in StringsUpTo(MaxObliviousLen), padding \in 0..MaxObliviousPad} :
        /\ VLen(alt) = VLen(fhe_str)
        /\ alt.is_padded = fhe_str.is_padded
        /\ alt.is_reusable = fhe_str.is_reusable}

\* the alternatives of an operand: of the same shape if the call takes it
Alternatives(fhe_str, taken) ==
    IF taken THEN SameShape(fhe_str) ELSE {fhe_str}

\* the call that was made took encrypted FheStrings only
EncryptedCall ==
    /\ op \in OneOperand \cup TwoOperands \cup ThreeOperands
    /\ fhe_string.is_encrypted
    /\ op \in TwoOperands \cup ThreeOperands => fhe_pattern.is_encrypted
    /\ op \in ThreeOperands => fhe_pattern_to.is_encrypted

=============================================================================
